---- MODULE Spec2Model ----
(***************************************************************************)
(* Model of the weather-forcast repository: the location resolver          *)
(* (pickLocation), the HTTP handlers /api/forecast, /api/cities,           *)
(* /api/countries and /api/countries/search with the process-wide country  *)
(* cache, and the get-forecast tool of the MCP server.                     *)
(*                                                                         *)
(* Strings are sequences of one-character strings, so that trim, case      *)
(* folding and length are computed as the code computes them.  An optional *)
(* field of a JSON object is a record field that is present or not.        *)
(***************************************************************************)
EXTENDS Integers, Sequences, FiniteSets, TLC

VARIABLES
    \* pickLocation(results, countryInput) applied to drawn inputs
    results, countryInput, picked, pickPc,
    \* one GET /api/forecast request: position, locals, upstream calls, response
    fcPc, fcReq, fcCountry, fcResults, fcLocation, fcForecastData, fcIndex,
    fcCalls, fcStatus, fcBody,
    \* one GET /api/cities request
    ctPc, ctReq, ctCountry, ctResults, ctCalls, ctStatus, ctBody,
    \* the country cache and the requests to /api/countries[/search] in flight
    countryCache, cnPc, cnRoute, cnLang, cnRefresh, cnCached, cnCalls,
    cnStatus, cnBody,
    \* the mapping of directory items applied to drawn inputs
    mapData, mapLang, mapOut, mapPc,
    \* one call of a tool of the MCP server: position, arguments, the point
    \* lookup's data, upstream calls, and what the caller gets
    toolPc, toolArgs, pointsData, toolCalls, toolResult

pickVars == <<results, countryInput, picked, pickPc>>
fcVars ==
    <<fcPc, fcReq, fcCountry, fcResults, fcLocation, fcForecastData, fcIndex,
      fcCalls, fcStatus, fcBody>>
ctVars == <<ctPc, ctReq, ctCountry, ctResults, ctCalls, ctStatus, ctBody>>
cnVars ==
    <<countryCache, cnPc, cnRoute, cnLang, cnRefresh, cnCached, cnCalls,
      cnStatus, cnBody>>
mapVars == <<mapData, mapLang, mapOut, mapPc>>
toolVars == <<toolPc, toolArgs, pointsData, toolCalls, toolResult>>
vars == <<pickVars, fcVars, ctVars, cnVars, mapVars, toolVars>>
notPick == <<fcVars, ctVars, cnVars, mapVars, toolVars>>
notForecast == <<pickVars, ctVars, cnVars, mapVars, toolVars>>
notCities == <<pickVars, fcVars, cnVars, mapVars, toolVars>>
notCountries == <<pickVars, fcVars, ctVars, mapVars, toolVars>>
notMap == <<pickVars, fcVars, ctVars, cnVars, toolVars>>
notTool == <<pickVars, fcVars, ctVars, cnVars, mapVars>>

-----------------------------------------------------------------------------
(* Bounds of the model *)

\* longest country string a caller passes to pickLocation
MaxLen == 3
\* longest candidate list the geocoder returns to pickLocation
MaxResults == 2
\* longest candidate list the geocoder returns to /api/cities
MaxCities == 2
\* requests to the country directory in flight at once
NumRequests == 2
\* longest directory answer the mapping is applied to
MaxItems == 2
\* most forecast periods the primary provider answers with
MaxPeriods == 2
\* longest hourly time series the index alignment is applied to
MaxHours == 3
\* longest hourly humidity series the extraction reads
MaxValues == 3

-----------------------------------------------------------------------------
(* Each part of the program is checked under a specification of its own;   *)
(* the parts that a specification does not run stay as they are here.      *)

\* JavaScript null
Null == [null |-> TRUE]

PickIdle ==
    /\ results = <<>>
    /\ countryInput = <<>>
    /\ picked = Null
    /\ pickPc = "off"

ForecastIdle ==
    /\ fcPc = "off"
    /\ fcReq = Null
    /\ fcCountry = <<>>
    /\ fcResults = <<>>
    /\ fcLocation = Null
    /\ fcForecastData = Null
    /\ fcIndex = 0
    /\ fcCalls = <<>>
    /\ fcStatus = 0
    /\ fcBody = Null

CitiesIdle ==
    /\ ctPc = "off"
    /\ ctReq = Null
    /\ ctCountry = <<>>
    /\ ctResults = <<>>
    /\ ctCalls = <<>>
    /\ ctStatus = 0
    /\ ctBody = Null

Requests == 1..NumRequests

CountriesIdle ==
    /\ countryCache = <<>>
    /\ cnPc = [p \in Requests |-> "off"]
    /\ cnRoute = [p \in Requests |-> ""]
    /\ cnLang = [p \in Requests |-> <<>>]
    /\ cnRefresh = [p \in Requests |-> FALSE]
    /\ cnCached = [p \in Requests |-> Null]
    /\ cnCalls = [p \in Requests |-> <<>>]
    /\ cnStatus = [p \in Requests |-> 0]
    /\ cnBody = [p \in Requests |-> Null]

MapIdle ==
    /\ mapData = <<>>
    /\ mapLang = <<>>
    /\ mapOut = <<>>
    /\ mapPc = "off"

ToolIdle ==
    /\ toolPc = "off"
    /\ toolArgs = Null
    /\ pointsData = Null
    /\ toolCalls = <<>>
    /\ toolResult = Null

PickOnly == ForecastIdle /\ CitiesIdle /\ CountriesIdle /\ MapIdle /\ ToolIdle
ForecastOnly == PickIdle /\ CitiesIdle /\ CountriesIdle /\ MapIdle /\ ToolIdle
CitiesOnly == PickIdle /\ ForecastIdle /\ CountriesIdle /\ MapIdle /\ ToolIdle
CountriesOnly == PickIdle /\ ForecastIdle /\ CitiesIdle /\ MapIdle /\ ToolIdle
MapOnly == PickIdle /\ ForecastIdle /\ CitiesIdle /\ CountriesIdle /\ ToolIdle
ToolOnly == PickIdle /\ ForecastIdle /\ CitiesIdle /\ CountriesIdle /\ MapIdle

-----------------------------------------------------------------------------
(* Strings *)

LowerLetters == <<"a", "e", "h", "i", "l", "n", "s", "u">>
UpperLetters == <<"A", "E", "H", "I", "L", "N", "S", "U">>

Position(c, letters) == CHOOSE k \in 1..Len(letters) : letters[k] = c
IsIn(c, letters) == \E k \in 1..Len(letters) : letters[k] = c

toLowerCaseChar(c) ==
    IF IsIn(c, UpperLetters) THEN LowerLetters[Position(c, UpperLetters)] ELSE c

toUpperCaseChar(c) ==
    IF IsIn(c, LowerLetters) THEN UpperLetters[Position(c, LowerLetters)] ELSE c

\* String.prototype.toLowerCase
toLowerCase(s) == [k \in 1..Len(s) |-> toLowerCaseChar(s[k])]

\* String.prototype.toUpperCase
toUpperCase(s) == [k \in 1..Len(s) |-> toUpperCaseChar(s[k])]

RECURSIVE trimStart(_)
trimStart(s) ==
    IF s # <<>> /\ Head(s) = " " THEN trimStart(Tail(s)) ELSE s

RECURSIVE trimEnd(_)
trimEnd(s) ==
    IF s # <<>> /\ s[Len(s)] = " " THEN trimEnd(SubSeq(s, 1, Len(s) - 1)) ELSE s

\* String.prototype.trim
trim(s) == trimEnd(trimStart(s))

\* every string over an alphabet of at most n characters
StringsUpTo(alphabet, n) == UNION {[1..k -> alphabet] : k \in 0..n}

-----------------------------------------------------------------------------
(* Location resolver *)

\* a GeocodingResult: country_code is optional
Has(r, f) == f \in DOMAIN r

\* a string is truthy when it is not empty; an absent field is undefined
Truthy(r, f) == Has(r, f) /\ r[f] # <<>>

pickMatches(rs, input) ==
    LET normalized == toLowerCase(trim(input))
        isCode == Len(normalized) = 2
        Match(result) ==
            IF isCode /\ Truthy(result, "country_code")
            THEN toLowerCase(result.country_code) = normalized
            ELSE toLowerCase(result.country) = normalized
    IN  SelectSeq(rs, Match)

\* bug: no fallback to the first candidate when the country filter is empty
pickLocation_NoFallback(rs, input) ==
    LET matches == pickMatches(rs, input)
    IN  IF matches # <<>> THEN matches[1] ELSE Null

\* bug: the last match is taken instead of the first
pickLocation_LastMatch(rs, input) ==
    LET matches == pickMatches(rs, input)
        chosen == IF Len(matches) # 0 THEN matches ELSE rs
    IN  IF chosen # <<>> THEN chosen[Len(chosen)] ELSE Null

pickLocation(rs, input) ==
    LET matches == pickMatches(rs, input)
        chosen == IF Len(matches) # 0 THEN matches ELSE rs
    IN  IF chosen # <<>> THEN chosen[1] ELSE Null

-----------------------------------------------------------------------------
(* Upstream responses and the fetch boundary *)

\* fetch() rejected: a network error
NetworkError == [kind |-> "neterr"]

\* a response whose body is the JSON value json
Http(status, json) == [kind |-> "http", status |-> status, json |-> json]

\* a response whose body is not JSON: response.json() rejects
HttpUnparseable(status) == [kind |-> "http", status |-> status]

\* Response.ok
ok(response) == response.status >= 200 /\ response.status <= 299

\* whether a provider fetch failed: a network error or a non-2xx status
FetchFailed(response) == response.kind = "neterr" \/ ~ok(response)

\* whether fetchJson returns null: fetch rejected, the status is not 2xx, or
\* the body is not JSON
fetchedNull(response) ==
    \/ response.kind = "neterr"
    \/ ~ok(response)
    \/ ~Has(response, "json")

\* fetchJson: every failure is caught and becomes null
fetchJson(response) ==
    IF fetchedNull(response) THEN Null ELSE response.json

\* how a settled fetch is recorded among the calls of a request
Outcome(response) ==
    IF response.kind = "neterr" THEN "neterr"
    ELSE IF response.status = 404 THEN "http404"
    ELSE IF ~ok(response) THEN "non2xx"
    ELSE IF ~Has(response, "json") THEN "unparseable"
    ELSE "ok"

Call(endpoint, outcome) == [endpoint |-> endpoint, outcome |-> outcome]

\* the last call of a request settles with the given response
Settle(calls, response) ==
    [calls EXCEPT ![Len(calls)] = Call(calls[Len(calls)].endpoint, Outcome(response))]

\* a JSON number, as opposed to null or undefined
Num(n) == [number |-> n]
IsNumber(v) == Has(v, "number")

\* a JSON object none of whose fields the program reads
OtherJson == [generationtime_ms |-> Num(1)]

-----------------------------------------------------------------------------
(* Temporal alignment and current conditions of /api/forecast.             *)
(* A timestamp is a string "<day>T<hour>" of digits around a "T"; indexes  *)
(* count from 0 as in the code.                                            *)

Digits == <<"0", "1", "2", "3", "4", "5", "6", "7", "8", "9">>

\* Array.prototype.indexOf and findIndex: the first index, or -1
RECURSIVE firstIndex(_, _)
firstIndex(flags, i) ==
    IF i >= Len(flags) THEN -1
    ELSE IF flags[i + 1] THEN i
    ELSE firstIndex(flags, i + 1)

indexOf(arr, x) == firstIndex([k \in 1..Len(arr) |-> arr[k] = x], 0)

\* String.prototype.startsWith
startsWith(str, prefix) ==
    Len(prefix) <= Len(str) /\ SubSeq(str, 1, Len(prefix)) = prefix

\* str.split("T")[0]: what precedes the first "T"
splitT0(str) ==
    LET at == indexOf(str, "T")
    IN  IF at < 0 THEN str ELSE SubSeq(str, 1, at)

\* what follows the first "T"
afterT(str) ==
    LET at == indexOf(str, "T")
    IN  IF at < 0 THEN <<>> ELSE SubSeq(str, at + 2, Len(str))

IsDigits(str) == str # <<>> /\ \A k \in 1..Len(str) : IsIn(str[k], Digits)

RECURSIVE Decimal(_)
Decimal(str) ==
    IF str = <<>> THEN 0
    ELSE 10 * Decimal(SubSeq(str, 1, Len(str) - 1))
         + (Position(str[Len(str)], Digits) - 1)

NaN == [nan |-> TRUE]
isNaN(v) == Has(v, "nan")

\* Date.parse: epoch milliseconds of "<day>" or "<day>T<hour>", else NaN
DateParse(str) ==
    IF IsDigits(splitT0(str)) /\ indexOf(str, "T") < 0
    THEN [ms |-> Decimal(str) * 86400000]
    ELSE IF IsDigits(splitT0(str)) /\ IsDigits(afterT(str))
    THEN [ms |-> Decimal(splitT0(str)) * 86400000 + Decimal(afterT(str)) * 3600000]
    ELSE NaN

abs(n) == IF n < 0 THEN -n ELSE n

\* bug: delta <= bestDelta, so that the last of the nearest entries wins
RECURSIVE nearest_LastWins(_, _, _, _)
nearest_LastWins(hourlyTimes, currentMs, i, best) ==
    IF i >= Len(hourlyTimes) THEN best.index
    ELSE LET ms == DateParse(hourlyTimes[i + 1])
         IN  IF isNaN(ms) \/ isNaN(currentMs)
             THEN nearest_LastWins(hourlyTimes, currentMs, i + 1, best)
             ELSE LET delta == abs(ms.ms - currentMs.ms)
                  IN  IF ~best.found \/ delta <= best.delta
                      THEN nearest_LastWins(hourlyTimes, currentMs, i + 1,
                                            [index |-> i, delta |-> delta, found |-> TRUE])
                      ELSE nearest_LastWins(hourlyTimes, currentMs, i + 1, best)

\* the forEach of the nearest-neighbour tier, from index i on; best holds
\* bestIndex and bestDelta, which is +Infinity while best.found is false
RECURSIVE nearest(_, _, _, _)
nearest(hourlyTimes, currentMs, i, best) ==
    IF i >= Len(hourlyTimes) THEN best.index
    ELSE LET ms == DateParse(hourlyTimes[i + 1])
         IN  IF isNaN(ms) \/ isNaN(currentMs)
             THEN nearest(hourlyTimes, currentMs, i + 1, best)
             ELSE LET delta == abs(ms.ms - currentMs.ms)
                  IN  IF ~best.found \/ delta < best.delta
                      THEN nearest(hourlyTimes, currentMs, i + 1,
                                   [index |-> i, delta |-> delta, found |-> TRUE])
                      ELSE nearest(hourlyTimes, currentMs, i + 1, best)

\* forecastData?.hourly?.time ?? []
hourlyTimesOf(forecastData) ==
    IF Has(forecastData, "hourly") /\ Has(forecastData.hourly, "time")
    THEN forecastData.hourly.time ELSE <<>>

\* whether forecastData?.current_weather?.time is a non-empty string
hasCurrentTime(forecastData) ==
    /\ Has(forecastData, "current_weather")
    /\ Has(forecastData.current_weather, "time")
    /\ forecastData.current_weather.time # <<>>

\* bug: the same-day tier is tried before the exact tier
alignIndex_DateBeforeExact(forecastData) ==
    LET hourlyTimes == hourlyTimesOf(forecastData)
    IN  IF hasCurrentTime(forecastData) /\ Len(hourlyTimes) > 0
        THEN LET currentTime == forecastData.current_weather.time
                 exactIndex == indexOf(hourlyTimes, currentTime)
                 dateIndex ==
                     firstIndex([k \in 1..Len(hourlyTimes) |->
                                    startsWith(hourlyTimes[k], splitT0(currentTime))], 0)
             IN  IF dateIndex >= 0 THEN dateIndex
                 ELSE IF exactIndex >= 0 THEN exactIndex
                 ELSE nearest(hourlyTimes, DateParse(currentTime), 0,
                              [index |-> 0, delta |-> 0, found |-> FALSE])
        ELSE 0

\* bug: the same-day tier takes the last entry of the day
alignIndex_LastOfDay(forecastData) ==
    LET hourlyTimes == hourlyTimesOf(forecastData)
    IN  IF hasCurrentTime(forecastData) /\ Len(hourlyTimes) > 0
        THEN LET currentTime == forecastData.current_weather.time
                 exactIndex == indexOf(hourlyTimes, currentTime)
                 sameDay == {k \in 1..Len(hourlyTimes) :
                               startsWith(hourlyTimes[k], splitT0(currentTime))}
             IN  IF exactIndex >= 0 THEN exactIndex
                 ELSE IF sameDay # {}
                 THEN (CHOOSE k \in sameDay : \A j \in sameDay : j <= k) - 1
                 ELSE nearest(hourlyTimes, DateParse(currentTime), 0,
                              [index |-> 0, delta |-> 0, found |-> FALSE])
        ELSE 0

\* bug: the same-day tier is left out
alignIndex_NoSameDay(forecastData) ==
    LET hourlyTimes == hourlyTimesOf(forecastData)
    IN  IF hasCurrentTime(forecastData) /\ Len(hourlyTimes) > 0
        THEN LET currentTime == forecastData.current_weather.time
                 exactIndex == indexOf(hourlyTimes, currentTime)
             IN  IF exactIndex >= 0 THEN exactIndex
                 ELSE nearest(hourlyTimes, DateParse(currentTime), 0,
                              [index |-> 0, delta |-> 0, found |-> FALSE])
        ELSE 0

\* bug: without a current time the index is the last of the series
alignIndex_DefaultLast(forecastData) ==
    LET hourlyTimes == hourlyTimesOf(forecastData)
    IN  IF hasCurrentTime(forecastData) /\ Len(hourlyTimes) > 0
        THEN LET currentTime == forecastData.current_weather.time
                 exactIndex == indexOf(hourlyTimes, currentTime)
                 dateIndex ==
                     firstIndex([k \in 1..Len(hourlyTimes) |->
                                    startsWith(hourlyTimes[k], splitT0(currentTime))], 0)
             IN  IF exactIndex >= 0 THEN exactIndex
                 ELSE IF dateIndex >= 0 THEN dateIndex
                 ELSE nearest(hourlyTimes, DateParse(currentTime), 0,
                              [index |-> 0, delta |-> 0, found |-> FALSE])
        ELSE IF Len(hourlyTimes) > 0 THEN Len(hourlyTimes) - 1 ELSE 0

\* bug: the result of indexOf is used without the test that it is >= 0
alignIndex_ExactUnchecked(forecastData) ==
    LET hourlyTimes == hourlyTimesOf(forecastData)
    IN  IF hasCurrentTime(forecastData) /\ Len(hourlyTimes) > 0
        THEN indexOf(hourlyTimes, forecastData.current_weather.time)
        ELSE 0

\* the index of the hourly series that stands for "now"
alignIndex(forecastData) ==
    LET hourlyTimes == hourlyTimesOf(forecastData)
    IN  IF hasCurrentTime(forecastData) /\ Len(hourlyTimes) > 0
        THEN LET currentTime == forecastData.current_weather.time
                 exactIndex == indexOf(hourlyTimes, currentTime)
                 currentDate == splitT0(currentTime)
                 dateIndex ==
                     firstIndex([k \in 1..Len(hourlyTimes) |->
                                    startsWith(hourlyTimes[k], currentDate)], 0)
             IN  IF exactIndex >= 0 THEN exactIndex
                 ELSE IF dateIndex >= 0 THEN dateIndex
                 ELSE nearest(hourlyTimes, DateParse(currentTime), 0,
                              [index |-> 0, delta |-> 0, found |-> FALSE])
        ELSE 0

\* bug: no scan for the first number when the slot holds none
pickHourlyValue_NoFallback(forecastData, field, index) ==
    IF ~(Has(forecastData, "hourly") /\ Has(forecastData.hourly, field))
    THEN Null
    ELSE LET values == forecastData.hourly[field]
         IN  IF index < Len(values) /\ IsNumber(values[index + 1])
             THEN values[index + 1]
             ELSE Null

\* pickHourlyValue(forecastData?.hourly?.[field]) at the aligned index
pickHourlyValue(forecastData, field, index) ==
    IF ~(Has(forecastData, "hourly") /\ Has(forecastData.hourly, field))
    THEN Null
    ELSE LET values == forecastData.hourly[field]
             first == firstIndex([k \in 1..Len(values) |-> IsNumber(values[k])], 0)
         IN  IF Len(values) = 0 THEN Null
             ELSE IF index < Len(values) /\ IsNumber(values[index + 1])
             THEN values[index + 1]
             ELSE IF first >= 0 THEN values[first + 1]
             ELSE Null

\* x?.[field] ?? null
orNull(obj, field) == IF Has(obj, field) THEN obj[field] ELSE Null

currentWeatherOf(forecastData) == orNull(forecastData, "current_weather")

\* bug: current_weather.windspeed is preferred to the hourly value
currentOf_CurrentWindFirst(forecastData, index) ==
    LET wind == pickHourlyValue(forecastData, "wind_speed_10m", index)
        now == orNull(currentWeatherOf(forecastData), "windspeed")
    IN  [temperature |-> orNull(currentWeatherOf(forecastData), "temperature"),
         windspeed |-> IF now # Null THEN now ELSE wind,
         humidity |-> pickHourlyValue(forecastData, "relative_humidity_2m", index),
         visibility |-> pickHourlyValue(forecastData, "visibility", index),
         apparentTemperature |->
             pickHourlyValue(forecastData, "apparent_temperature", index)]

\* the current object of the response
currentOf(forecastData, index) ==
    LET wind == pickHourlyValue(forecastData, "wind_speed_10m", index)
    IN  [temperature |-> orNull(currentWeatherOf(forecastData), "temperature"),
         windspeed |-> IF wind # Null THEN wind
                       ELSE orNull(currentWeatherOf(forecastData), "windspeed"),
         humidity |-> pickHourlyValue(forecastData, "relative_humidity_2m", index),
         visibility |-> pickHourlyValue(forecastData, "visibility", index),
         apparentTemperature |->
             pickHourlyValue(forecastData, "apparent_temperature", index)]

\* bug: an empty daily.time passes the check
noDailyTime_EmptyAccepted(forecastData) ==
    ~(Has(forecastData, "daily") /\ Has(forecastData.daily, "time"))

\* !forecastData?.daily?.time?.length
noDailyTime(forecastData) ==
    ~(/\ Has(forecastData, "daily")
      /\ Has(forecastData.daily, "time")
      /\ Len(forecastData.daily.time) > 0)

-----------------------------------------------------------------------------
(* Country directory: the mapping of the upstream items to country entries *)

\* the language tag that selects Hebrew names
HebrewTag == <<"h", "e">>

\* item.translations?.heb?.common, the empty string when undefined
translatedHebrew(item) ==
    IF /\ Has(item, "translations")
       /\ Has(item.translations, "heb")
       /\ Has(item.translations.heb, "common")
    THEN item.translations.heb.common ELSE <<>>

\* whether item.name?.nativeName?.heb?.common is defined
hasNativeHebrew(item) ==
    /\ Has(item, "name")
    /\ Has(item.name, "nativeName")
    /\ Has(item.name.nativeName, "heb")
    /\ Has(item.name.nativeName.heb, "common")

\* item.name?.nativeName?.heb?.common, the empty string when undefined
nativeHebrew(item) ==
    IF hasNativeHebrew(item) THEN item.name.nativeName.heb.common ELSE <<>>

\* item.cca2 && item.name?.common
usable(item) ==
    /\ Truthy(item, "cca2")
    /\ Has(item, "name")
    /\ Truthy(item.name, "common")

\* bug: the native Hebrew name is preferred to the translated one
selectName_NativeFirst(item, normalizedLang) ==
    IF normalizedLang = HebrewTag
    THEN IF nativeHebrew(item) # <<>> THEN nativeHebrew(item)
         ELSE IF translatedHebrew(item) # <<>> THEN translatedHebrew(item)
         ELSE item.name.common
    ELSE item.name.common

\* the name of an entry: a || b || c for "he", the English common name otherwise
selectName(item, normalizedLang) ==
    IF normalizedLang = HebrewTag
    THEN IF translatedHebrew(item) # <<>> THEN translatedHebrew(item)
         ELSE IF nativeHebrew(item) # <<>> THEN nativeHebrew(item)
         ELSE item.name.common
    ELSE item.name.common

\* an optional field of an object literal: absent when its value is undefined
withField(entry, field, present, value) ==
    IF present THEN entry @@ (field :> value) ELSE entry

\* the entry an item is mapped to
countryEntry(item, normalizedLang) ==
    LET base == [code |-> toUpperCase(item.cca2),
                 name |-> selectName(item, normalizedLang),
                 englishName |-> item.name.common]
        hebrew == withField(base, "hebrewName",
                            translatedHebrew(item) # <<>> \/ hasNativeHebrew(item),
                            IF translatedHebrew(item) # <<>>
                            THEN translatedHebrew(item) ELSE nativeHebrew(item))
    IN  withField(hebrew, "altSpellings", Has(item, "altSpellings"),
                  IF Has(item, "altSpellings") THEN item.altSpellings ELSE <<>>)

\* the collation order of the letters of the model: Latin before Hebrew
CollationOrder ==
    <<"a", "e", "h", "i", "l", "n", "s", "u", "alef", "yod", "shin">>

primary(c) == Position(toLowerCaseChar(c), CollationOrder)

\* comparison by letters, case ignored: -1, 0 or 1
RECURSIVE comparePrimary(_, _)
comparePrimary(a, b) ==
    IF a = <<>> /\ b = <<>> THEN 0
    ELSE IF a = <<>> THEN -1
    ELSE IF b = <<>> THEN 1
    ELSE IF primary(Head(a)) < primary(Head(b)) THEN -1
    ELSE IF primary(Head(a)) > primary(Head(b)) THEN 1
    ELSE comparePrimary(Tail(a), Tail(b))

\* among strings equal but for case: lower case first at the first difference
RECURSIVE compareCase(_, _)
compareCase(a, b) ==
    IF a = <<>> \/ b = <<>> THEN 0
    ELSE IF Head(a) = Head(b) THEN compareCase(Tail(a), Tail(b))
    ELSE IF IsIn(Head(a), LowerLetters) THEN -1
    ELSE 1

\* String.prototype.localeCompare
localeCompare(a, b) ==
    IF comparePrimary(a, b) # 0 THEN comparePrimary(a, b) ELSE compareCase(a, b)

\* the place of an entry in a sorted list: after the entries not greater
RECURSIVE insertByName(_, _)
insertByName(sorted, entry) ==
    IF sorted = <<>> THEN <<entry>>
    ELSE IF localeCompare(Head(sorted).name, entry.name) <= 0
    THEN <<Head(sorted)>> \o insertByName(Tail(sorted), entry)
    ELSE <<entry>> \o sorted

\* .sort((a, b) => a.name.localeCompare(b.name)): a stable sort
RECURSIVE sortByName(_)
sortByName(entries) ==
    IF entries = <<>> THEN <<>>
    ELSE insertByName(sortByName(SubSeq(entries, 1, Len(entries) - 1)),
                      entries[Len(entries)])

\* data.filter(...).map(...).sort(...)
mapCountries(data, normalizedLang) ==
    LET kept == SelectSeq(data, usable)
    IN  sortByName([k \in 1..Len(kept) |-> countryEntry(kept[k], normalizedLang)])

-----------------------------------------------------------------------------
(* Inputs of pickLocation *)

CountryChars == {"i", "L", " "}
CountryInputs == StringsUpTo(CountryChars, MaxLen)

CandidateNames == {<<"a">>, <<"e">>}
CandidateCountries == {<<"I", "l">>, <<"I", "l", "i">>}
CandidateCodes == {<<>>, <<"I", "L">>, <<"l", "i">>}

CandidateLatitudes == {Num(32)}
CandidateLongitudes == {Num(34)}

Candidates ==
    [name : CandidateNames, country : CandidateCountries,
     latitude : CandidateLatitudes, longitude : CandidateLongitudes]
    \cup [name : CandidateNames, country : CandidateCountries,
          country_code : CandidateCodes,
          latitude : CandidateLatitudes, longitude : CandidateLongitudes]

CandidateLists == UNION {[1..k -> Candidates] : k \in 0..MaxResults}

InitPick ==
    /\ results \in CandidateLists
    /\ countryInput \in CountryInputs
    /\ picked = Null
    /\ pickPc = "call"
    /\ PickOnly

PickLocation ==
    /\ pickPc = "call"
    /\ picked' = pickLocation(results, countryInput)
    /\ pickPc' = "returned"
    /\ UNCHANGED <<results, countryInput>>

NextPick == PickLocation /\ UNCHANGED notPick

SpecPick == InitPick /\ [][NextPick]_vars

-----------------------------------------------------------------------------
(* GET /api/forecast *)

\* typeof req.query[field] === "string" ? req.query[field].trim() : ""
trimmedQuery(req, field) ==
    IF Has(req.query, field) THEN trim(req.query[field]) ELSE <<>>

\* req.method && req.method !== "GET"
notGet(req) == Has(req, "method") /\ req.method # "GET"

Methods == {"GET", "POST"}
CityInputs == {<<>>, <<" ">>, <<"a">>, <<" ", "a", " ">>}
ForecastCountryInputs ==
    {<<" ">>, <<"i", "L">>, <<" ", "l", "i">>, <<"I", "l", "i">>}

ForecastQueries ==
    [city : CityInputs, country : ForecastCountryInputs]
    \cup [city : CityInputs] \cup [country : ForecastCountryInputs]

ForecastRequests ==
    [query : ForecastQueries] \cup [method : Methods, query : ForecastQueries]

\* the candidates the geocoder answers a request with
GeocodeCandidates ==
    {c \in Candidates :
        /\ c.country = <<"I", "l", "i">>
        /\ Has(c, "country_code") => c.country_code # <<>>}

GeocodeLists == UNION {[1..k -> GeocodeCandidates] : k \in 0..MaxResults}

GeocodeResponses ==
    {NetworkError, Http(500, OtherJson), HttpUnparseable(200), Http(200, OtherJson)}
    \cup {Http(200, [results |-> list]) : list \in GeocodeLists}

T10 == <<"1", "T", "0">>
T11 == <<"1", "T", "1">>
T15 == <<"1", "T", "5">>
T21 == <<"2", "T", "1">>

HourlySeries ==
    {[time |-> <<T10, T11>>,
      relative_humidity_2m |-> <<Null, Num(55)>>,
      visibility |-> <<Num(9), Null>>,
      apparent_temperature |-> <<Num(19), Num(21)>>,
      wind_speed_10m |-> <<Null, Null>>],
     [time |-> <<T10, T11>>,
      relative_humidity_2m |-> <<Num(50), Num(55)>>,
      wind_speed_10m |-> <<Num(4), Num(6)>>]}

CurrentWeathers ==
    [time : {T11, T15, T21, <<"x">>}, temperature : {Num(20)}, windspeed : {Num(3)}]

DailySeries == {[time |-> <<<<"1">>, <<"2">>>>, temperature_2m_max |-> <<Num(30), Num(31)>>]}

ForecastPayloads ==
    {OtherJson,
     [daily |-> [temperature_2m_max |-> <<Num(30)>>]],
     [daily |-> [time |-> <<>>]],
     [daily |-> [time |-> <<<<"1">>>>]]}
    \cup [daily : DailySeries, hourly : HourlySeries, current_weather : CurrentWeathers,
          timezone : {"auto"}]

ForecastResponses ==
    {NetworkError, Http(500, OtherJson), HttpUnparseable(200)}
    \cup {Http(200, payload) : payload \in ForecastPayloads}

\* geocodeData?.results ?? []
resultsOf(geocodeData) ==
    IF Has(geocodeData, "results") THEN geocodeData.results ELSE <<>>

\* the body of the 200 answer
forecastBody(location, forecastData, index) ==
    [location |-> [name |-> location.name,
                   admin1 |-> orNull(location, "admin1"),
                   country |-> location.country,
                   country_code |-> orNull(location, "country_code"),
                   latitude |-> location.latitude,
                   longitude |-> location.longitude],
     timezone |-> orNull(forecastData, "timezone"),
     current |-> currentOf(forecastData, index),
     current_weather |-> orNull(forecastData, "current_weather"),
     hourly |-> orNull(forecastData, "hourly"),
     daily |-> forecastData.daily]

InitForecast ==
    /\ fcPc = "idle"
    /\ fcReq = Null
    /\ fcCountry = <<>>
    /\ fcResults = <<>>
    /\ fcLocation = Null
    /\ fcForecastData = Null
    /\ fcIndex = 0
    /\ fcCalls = <<>>
    /\ fcStatus = 0
    /\ fcBody = Null
    /\ ForecastOnly

\* bug: the geocoding fetch is issued before the validation
ForecastRequest_FetchFirst(req) ==
    /\ fcPc = "idle"
    /\ fcReq' = req
    /\ IF notGet(req)
       THEN /\ fcStatus' = 405
            /\ fcBody' = [error |-> "Method not allowed."]
            /\ fcPc' = "done"
            /\ UNCHANGED <<fcCountry, fcCalls>>
       ELSE /\ fcCountry' = trimmedQuery(req, "country")
            /\ fcCalls' = <<Call("geocoding", "pending")>>
            /\ IF trimmedQuery(req, "city") = <<>> \/ trimmedQuery(req, "country") = <<>>
               THEN /\ fcStatus' = 400
                    /\ fcBody' = [error |-> "Please provide both city and country."]
                    /\ fcPc' = "done"
               ELSE /\ fcPc' = "geocode"
                    /\ UNCHANGED <<fcStatus, fcBody>>
    /\ UNCHANGED <<fcResults, fcLocation, fcForecastData, fcIndex>>

\* the handler up to its first await: method, validation, geocoding fetch
ForecastRequest(req) ==
    /\ fcPc = "idle"
    /\ fcReq' = req
    /\ IF notGet(req)
       THEN /\ fcStatus' = 405
            /\ fcBody' = [error |-> "Method not allowed."]
            /\ fcPc' = "done"
            /\ UNCHANGED <<fcCountry, fcCalls>>
       ELSE IF trimmedQuery(req, "city") = <<>> \/ trimmedQuery(req, "country") = <<>>
       THEN /\ fcStatus' = 400
            /\ fcBody' = [error |-> "Please provide both city and country."]
            /\ fcPc' = "done"
            /\ UNCHANGED <<fcCountry, fcCalls>>
       ELSE /\ fcCountry' = trimmedQuery(req, "country")
            /\ fcCalls' = <<Call("geocoding", "pending")>>
            /\ fcPc' = "geocode"
            /\ UNCHANGED <<fcStatus, fcBody>>
    /\ UNCHANGED <<fcResults, fcLocation, fcForecastData, fcIndex>>

\* the geocoding fetch settles: candidates, pickLocation, forecast fetch
ForecastGeocoded(response) ==
    /\ fcPc = "geocode"
    /\ fcResults' = resultsOf(fetchJson(response))
    /\ IF Len(fcResults') = 0
       THEN /\ fcStatus' = 404
            /\ fcBody' = [error |-> "No locations found for that city."]
            /\ fcPc' = "done"
            /\ fcCalls' = Settle(fcCalls, response)
            /\ UNCHANGED fcLocation
       ELSE /\ fcLocation' = pickLocation(fcResults', fcCountry)
            /\ IF fcLocation' = Null
               THEN /\ fcStatus' = 404
                    /\ fcBody' = [error |-> "No matching location for that country."]
                    /\ fcPc' = "done"
                    /\ fcCalls' = Settle(fcCalls, response)
               ELSE /\ fcCalls' = Append(Settle(fcCalls, response),
                                         Call("forecast", "pending"))
                    /\ fcPc' = "forecast"
                    /\ UNCHANGED <<fcStatus, fcBody>>
    /\ UNCHANGED <<fcReq, fcCountry, fcForecastData, fcIndex>>

\* bug: a forecast fetch that failed is issued again
ForecastFetched_Retry(response) ==
    /\ fcPc = "forecast"
    /\ IF fetchJson(response) = Null
       THEN /\ fcCalls' = Append(Settle(fcCalls, response), Call("forecast", "pending"))
            /\ UNCHANGED <<fcForecastData, fcIndex, fcStatus, fcBody, fcPc>>
       ELSE /\ fcCalls' = Settle(fcCalls, response)
            /\ fcForecastData' = fetchJson(response)
            /\ IF noDailyTime(fcForecastData')
               THEN /\ fcStatus' = 502
                    /\ fcBody' = [error |-> "Forecast data not available for this location."]
                    /\ UNCHANGED fcIndex
               ELSE /\ fcIndex' = alignIndex(fcForecastData')
                    /\ fcStatus' = 200
                    /\ fcBody' = forecastBody(fcLocation, fcForecastData', fcIndex')
            /\ fcPc' = "done"
    /\ UNCHANGED <<fcReq, fcCountry, fcResults, fcLocation>>

\* the forecast fetch settles: 502 without daily.time, else the answer
ForecastFetched(response) ==
    /\ fcPc = "forecast"
    /\ fcCalls' = Settle(fcCalls, response)
    /\ fcForecastData' = fetchJson(response)
    /\ IF noDailyTime(fcForecastData')
       THEN /\ fcStatus' = 502
            /\ fcBody' = [error |-> "Forecast data not available for this location."]
            /\ UNCHANGED fcIndex
       ELSE /\ fcIndex' = alignIndex(fcForecastData')
            /\ fcStatus' = 200
            /\ fcBody' = forecastBody(fcLocation, fcForecastData', fcIndex')
    /\ fcPc' = "done"
    /\ UNCHANGED <<fcReq, fcCountry, fcResults, fcLocation>>

NextForecast ==
    \/ \E req \in ForecastRequests : ForecastRequest(req) /\ UNCHANGED notForecast
    \/ \E response \in GeocodeResponses :
           ForecastGeocoded(response) /\ UNCHANGED notForecast
    \/ \E response \in ForecastResponses :
           ForecastFetched(response) /\ UNCHANGED notForecast

SpecForecast == InitForecast /\ [][NextForecast]_vars

-----------------------------------------------------------------------------
(* GET /api/forecast for one city, on a wider range of hourly time series  *)

\* the request, and the geocoder's answer to it
AlignRequest ==
    [method |-> "GET", query |-> [city |-> <<"a">>, country |-> <<"i", "L">>]]
AlignCandidate ==
    [name |-> <<"a">>, country |-> <<"I", "l", "i">>, country_code |-> <<"I", "L">>,
     latitude |-> Num(32), longitude |-> Num(34)]
AlignGeocodeResponse == Http(200, [results |-> <<AlignCandidate>>])

\* a timestamp "<day>T<hour>"
Stamp(day, hour) == <<day, "T", hour>>

\* timestamps of the hourly series: days 1 and 3, and one that does not parse
HourStamps ==
    {Stamp("1", "0"), Stamp("1", "1"), Stamp("1", "5"),
     Stamp("3", "0"), Stamp("3", "1"), <<"x">>}

\* timestamps of current_weather: also day 2, and the empty string
CurrentStamps == HourStamps \cup {Stamp("2", "0"), Stamp("2", "1"), <<>>}

HourLists == UNION {[1..k -> HourStamps] : k \in 0..MaxHours}

AlignHourlies == [time : HourLists] \cup {OtherJson}

AlignCurrents ==
    [time : CurrentStamps, temperature : {Num(20)}]
    \cup {[temperature |-> Num(20)]}

AlignPayloads ==
    [daily : DailySeries, hourly : AlignHourlies, current_weather : AlignCurrents]
    \cup [daily : DailySeries, hourly : AlignHourlies]
    \cup [daily : DailySeries, current_weather : AlignCurrents]

AlignResponses == {Http(200, payload) : payload \in AlignPayloads}

NextAlign ==
    \/ ForecastRequest(AlignRequest) /\ UNCHANGED notForecast
    \/ ForecastGeocoded(AlignGeocodeResponse) /\ UNCHANGED notForecast
    \/ \E response \in AlignResponses :
           ForecastFetched(response) /\ UNCHANGED notForecast

SpecAlign == InitForecast /\ [][NextAlign]_vars

-----------------------------------------------------------------------------
(* GET /api/forecast for one city, on a wider range of hourly value series *)

ExtractTimes == <<Stamp("1", "0"), Stamp("1", "1"), Stamp("1", "5")>>

HumidityLists == UNION {[1..k -> {Null, Num(55), Num(60)}] : k \in 0..MaxValues}
WindLists ==
    {<<>>, <<Num(0)>>, <<Null, Null>>, <<Null, Num(0)>>, <<Null, Null, Num(0)>>}

\* the fields of hourly that may be missing: <<>> stands for none of them
HumidityParts == {<<>>} \cup {[relative_humidity_2m |-> l] : l \in HumidityLists}
WindParts == {<<>>} \cup {[wind_speed_10m |-> l] : l \in WindLists}
OtherParts ==
    {<<>>,
     [visibility |-> <<Null, Null, Num(9)>>, apparent_temperature |-> <<Num(7)>>],
     [visibility |-> <<>>, apparent_temperature |-> <<Null, Null>>]}

ExtractHourlies ==
    {[time |-> ExtractTimes] @@ h @@ w @@ o :
        h \in HumidityParts, w \in WindParts, o \in OtherParts}

ExtractCurrents ==
    [time : {ExtractTimes[k] : k \in 1..Len(ExtractTimes)}, temperature : {Num(20)}]
    \cup [time : {ExtractTimes[k] : k \in 1..Len(ExtractTimes)},
          temperature : {Num(20)}, windspeed : {Num(3)}]

ExtractPayloads ==
    [daily : DailySeries, hourly : ExtractHourlies, current_weather : ExtractCurrents]
    \cup [daily : DailySeries, hourly : ExtractHourlies]
    \cup [daily : DailySeries, current_weather : ExtractCurrents]

ExtractResponses == {Http(200, payload) : payload \in ExtractPayloads}

NextExtract ==
    \/ ForecastRequest(AlignRequest) /\ UNCHANGED notForecast
    \/ ForecastGeocoded(AlignGeocodeResponse) /\ UNCHANGED notForecast
    \/ \E response \in ExtractResponses :
           ForecastFetched(response) /\ UNCHANGED notForecast

SpecExtract == InitForecast /\ [][NextExtract]_vars

-----------------------------------------------------------------------------
(* GET /api/cities *)

\* item.country_code?.toUpperCase() === countryCode
inCountry(item, countryCode) ==
    Has(item, "country_code") /\ toUpperCase(item.country_code) = countryCode

\* the mapped item: {name, admin1: item.admin1 ?? null}
cityOf(item) == [name |-> item.name, admin1 |-> orNull(item, "admin1")]

\* bug: the key keeps the case of the name
cityKey_CaseSensitive(city) ==
    city.name \o <<"|">>
        \o (IF city.admin1 = Null THEN <<>> ELSE city.admin1.string)

\* `${item.name.toLowerCase()}|${item.admin1 ?? ""}`
cityKey(city) ==
    toLowerCase(city.name) \o <<"|">>
        \o (IF city.admin1 = Null THEN <<>> ELSE city.admin1.string)

\* the values of the Map filled in list order, a key being set once
RECURSIVE uniqueCities(_, _)
uniqueCities(filtered, keys) ==
    IF filtered = <<>> THEN <<>>
    ELSE IF cityKey(Head(filtered)) \in keys
    THEN uniqueCities(Tail(filtered), keys)
    ELSE <<Head(filtered)>>
         \o uniqueCities(Tail(filtered), keys \cup {cityKey(Head(filtered))})

\* the cities of the answer
citiesOf(rs, countryCode) ==
    LET Keep(item) == inCountry(item, countryCode)
        kept == SelectSeq(rs, Keep)
    IN  uniqueCities([k \in 1..Len(kept) |-> cityOf(kept[k])], {})

\* a JSON string, as opposed to null: admin1 is string | null in the answer
Str(chars) == [string |-> chars]

CityNames == {<<"a">>, <<"A">>, <<"e">>}
CityAdmins == {Str(<<>>), Str(<<"n">>)}
CityCodes == {<<"i", "l">>, <<"U", "S">>}

CityCandidates ==
    [name : CityNames] \cup [name : CityNames, admin1 : CityAdmins]
    \cup [name : CityNames, country_code : CityCodes]
    \cup [name : CityNames, admin1 : CityAdmins, country_code : CityCodes]

CityLists == UNION {[1..k -> CityCandidates] : k \in 0..MaxCities}

CitiesGeocodeResponses ==
    {NetworkError, Http(500, OtherJson), HttpUnparseable(200), Http(200, OtherJson)}
    \cup {Http(200, [results |-> list]) : list \in CityLists}

CitiesCountryInputs == {<<" ">>, <<"I", "l", " ">>}
CitiesQueryInputs == {<<>>, <<"a">>}

CitiesQueries ==
    [country : CitiesCountryInputs, query : CitiesQueryInputs]
    \cup [country : CitiesCountryInputs] \cup [query : CitiesQueryInputs]

CitiesRequests ==
    [query : CitiesQueries] \cup [method : Methods, query : CitiesQueries]

InitCities ==
    /\ ctPc = "idle"
    /\ ctReq = Null
    /\ ctCountry = <<>>
    /\ ctResults = <<>>
    /\ ctCalls = <<>>
    /\ ctStatus = 0
    /\ ctBody = Null
    /\ CitiesOnly

\* the handler up to its await: method, validation, geocoding fetch
CitiesRequest(req) ==
    /\ ctPc = "idle"
    /\ ctReq' = req
    /\ IF notGet(req)
       THEN /\ ctStatus' = 405
            /\ ctBody' = [error |-> "Method not allowed."]
            /\ ctPc' = "done"
            /\ UNCHANGED <<ctCountry, ctCalls>>
       ELSE IF trimmedQuery(req, "country") = <<>> \/ trimmedQuery(req, "query") = <<>>
       THEN /\ ctStatus' = 400
            /\ ctBody' = [error |-> "Please provide country and query."]
            /\ ctPc' = "done"
            /\ UNCHANGED <<ctCountry, ctCalls>>
       ELSE /\ ctCountry' = trimmedQuery(req, "country")
            /\ ctCalls' = <<Call("geocoding", "pending")>>
            /\ ctPc' = "geocode"
            /\ UNCHANGED <<ctStatus, ctBody>>
    /\ UNCHANGED ctResults

\* the geocoding fetch settles: filter by country, de-duplicate, answer
CitiesGeocoded(response) ==
    /\ ctPc = "geocode"
    /\ ctCalls' = Settle(ctCalls, response)
    /\ ctResults' = resultsOf(fetchJson(response))
    /\ ctStatus' = 200
    /\ ctBody' = [cities |-> citiesOf(ctResults', toUpperCase(ctCountry))]
    /\ ctPc' = "done"
    /\ UNCHANGED <<ctReq, ctCountry>>

NextCities ==
    \/ \E req \in CitiesRequests : CitiesRequest(req) /\ UNCHANGED notCities
    \/ \E response \in CitiesGeocodeResponses :
           CitiesGeocoded(response) /\ UNCHANGED notCities

SpecCities == InitCities /\ [][NextCities]_vars

-----------------------------------------------------------------------------
(* GET /api/countries and GET /api/countries/search, with the country cache *)

ItemIL ==
    [cca2 |-> <<"i", "l">>,
     name |-> [common |-> <<"I", "s">>,
               nativeName |-> [heb |-> [common |-> <<"yod", "shin">>]]],
     translations |-> [heb |-> [common |-> <<"yod", "alef">>]],
     altSpellings |-> <<<<"I", "L">>>>]
ItemUS == [cca2 |-> <<"U", "S">>, name |-> [common |-> <<"U", "s", "a">>]]
ItemNoCode == [name |-> [common |-> <<"N", "i", "l">>]]

\* what the directory answers with: it may change from one fetch to the next
DirectoryData == {<<ItemUS, ItemIL>>, <<ItemNoCode>>}

DirectoryResponses ==
    {NetworkError} \cup {Http(200, data) : data \in DirectoryData}

TranslationResponses ==
    {NetworkError, Http(404, OtherJson), Http(500, OtherJson),
     Http(200, <<ItemUS, ItemIL>>)}

SearchInputs == {<<" ">>, <<" ", "i", "s">>}

CountriesQueries ==
    {[lang |-> <<"h", "e">>],
     [lang |-> <<"H", "E">>, refresh |-> <<"0">>],
     [lang |-> <<"h", "e">>, refresh |-> <<"1">>],
     [refresh |-> <<"1">>],
     OtherJson}

SearchQueries ==
    {[lang |-> <<"H", "E">>, query |-> <<" ", "i", "s">>],
     [query |-> <<" ", "i", "s">>],
     [lang |-> <<"h", "e">>, query |-> <<" ">>],
     [lang |-> <<"h", "e">>]}

CountriesRequests ==
    [method : {"GET"}, query : CountriesQueries]
    \cup {[method |-> "POST", query |-> OtherJson]}
SearchRequests ==
    [method : {"GET"}, query : SearchQueries]
    \cup {[method |-> "POST", query |-> OtherJson]}

\* typeof req.query.lang === "string" ? req.query.lang : "en"
langOf(req) == IF Has(req.query, "lang") THEN req.query.lang ELSE <<"e", "n">>

\* typeof req.query.refresh === "string" && req.query.refresh === "1"
refreshOf(req) == Has(req.query, "refresh") /\ req.query.refresh = <<"1">>

\* bug: a cached empty list counts as no entry
cacheGet_EmptyIsAbsent(cache, key) ==
    IF key \in DOMAIN cache /\ cache[key] # <<>> THEN [list |-> cache[key]] ELSE Null

\* countryCache.get(key): the list, or null for undefined
cacheGet(cache, key) ==
    IF key \in DOMAIN cache THEN [list |-> cache[key]] ELSE Null

\* countryCache.set(key, list)
cacheSet(cache, key, list) ==
    [k \in DOMAIN cache \cup {key} |-> IF k = key THEN list ELSE cache[k]]

\* bug: the cache is keyed by the language tag as given
cacheKey_AsGiven(lang) == lang

\* lang.toLowerCase(): the key of the cache
cacheKey(lang) == toLowerCase(lang)

\* bug: the searched entries are stored in the cache
afterSearch_Stored(cache, lang, entries) == cacheSet(cache, cacheKey(lang), entries)

\* the cache after a search: searchCountries does not touch it
afterSearch(cache, lang, entries) == cache

\* bug: the cache is replaced by one that holds the fetched language only
afterList_OnlyThisKey(cache, lang, entries) ==
    [k \in {cacheKey(lang)} |-> entries]

\* bug: a failed fetch is remembered as an empty list
afterFailure_Emptied(cache, lang) == cacheSet(cache, cacheKey(lang), <<>>)

\* the cache after getCountries found that its fetch failed: no set
afterFailure(cache, lang) == cache

\* bug: the fetched entries are added to the list the cache holds
afterList_Merged(cache, lang, entries) ==
    cacheSet(cache, cacheKey(lang),
             IF cacheKey(lang) \in DOMAIN cache
             THEN cache[cacheKey(lang)] \o entries ELSE entries)

\* the cache after getCountries fetched and mapped the directory
afterList(cache, lang, entries) == cacheSet(cache, cacheKey(lang), entries)

\* the answer of /api/countries to the list getCountries returned
countriesAnswer(countries) ==
    IF Len(countries) = 0
    THEN [status |-> 502, body |-> [error |-> "Unable to load countries list."]]
    ELSE [status |-> 200, body |-> [countries |-> countries]]

InitCountries ==
    /\ countryCache = <<>>
    /\ cnPc = [p \in Requests |-> "idle"]
    /\ cnRoute = [p \in Requests |-> ""]
    /\ cnLang = [p \in Requests |-> <<>>]
    /\ cnRefresh = [p \in Requests |-> FALSE]
    /\ cnCached = [p \in Requests |-> Null]
    /\ cnCalls = [p \in Requests |-> <<>>]
    /\ cnStatus = [p \in Requests |-> 0]
    /\ cnBody = [p \in Requests |-> Null]
    /\ CountriesOnly

\* a request slot is free: no request, or one that was answered
free(p) == cnPc[p] \in {"idle", "done"}

\* the handler of slot p returned: its locals are gone
returned(p) ==
    /\ cnRoute' = [cnRoute EXCEPT ![p] = ""]
    /\ cnLang' = [cnLang EXCEPT ![p] = <<>>]
    /\ cnRefresh' = [cnRefresh EXCEPT ![p] = FALSE]
    /\ cnCached' = [cnCached EXCEPT ![p] = Null]

\* GET /api/countries up to the await of the directory fetch: a cached list
\* is returned and answered at once; across the await getCountries keeps
\* normalizedLang, the only form of the tag it uses from then on
CountriesRequest(p, req) ==
    /\ free(p)
    /\ IF notGet(req)
       THEN /\ cnStatus' = [cnStatus EXCEPT ![p] = 405]
            /\ cnBody' = [cnBody EXCEPT ![p] = [error |-> "Method not allowed."]]
            /\ cnPc' = [cnPc EXCEPT ![p] = "done"]
            /\ cnCalls' = [cnCalls EXCEPT ![p] = <<>>]
            /\ returned(p)
       ELSE LET cached == cacheGet(countryCache, cacheKey(langOf(req)))
            IN  IF cached # Null /\ ~refreshOf(req)
                THEN /\ cnStatus' = [cnStatus EXCEPT
                                       ![p] = countriesAnswer(cached.list).status]
                     /\ cnBody' = [cnBody EXCEPT
                                     ![p] = countriesAnswer(cached.list).body]
                     /\ cnPc' = [cnPc EXCEPT ![p] = "done"]
                     /\ cnCalls' = [cnCalls EXCEPT ![p] = <<>>]
                     /\ returned(p)
                ELSE /\ cnRoute' = [cnRoute EXCEPT ![p] = "/api/countries"]
                     /\ cnLang' = [cnLang EXCEPT ![p] = cacheKey(langOf(req))]
                     /\ cnRefresh' = [cnRefresh EXCEPT ![p] = refreshOf(req)]
                     /\ cnCached' = [cnCached EXCEPT ![p] = cached]
                     /\ cnStatus' = [cnStatus EXCEPT ![p] = 0]
                     /\ cnBody' = [cnBody EXCEPT ![p] = Null]
                     /\ cnPc' = [cnPc EXCEPT ![p] = "list"]
                     /\ cnCalls' = [cnCalls EXCEPT ![p] = <<Call("all", "pending")>>]
    /\ UNCHANGED countryCache

\* the directory fetch of getCountries settles: [] on failure, else the
\* mapped and sorted list is stored in the cache and returned
CountriesFetched(p, response) ==
    /\ cnPc[p] = "list"
    /\ cnCalls' = [cnCalls EXCEPT ![p] = Settle(cnCalls[p], response)]
    /\ IF fetchedNull(response)
       THEN /\ cnStatus' = [cnStatus EXCEPT ![p] = countriesAnswer(<<>>).status]
            /\ cnBody' = [cnBody EXCEPT ![p] = countriesAnswer(<<>>).body]
            /\ countryCache' = afterFailure(countryCache, cnLang[p])
       ELSE LET countries == mapCountries(fetchJson(response), cacheKey(cnLang[p]))
            IN  /\ countryCache' = afterList(countryCache, cnLang[p], countries)
                /\ cnStatus' = [cnStatus EXCEPT ![p] = countriesAnswer(countries).status]
                /\ cnBody' = [cnBody EXCEPT ![p] = countriesAnswer(countries).body]
    /\ cnPc' = [cnPc EXCEPT ![p] = "done"]
    /\ returned(p)

\* GET /api/countries/search up to the await of the translation fetch
SearchRequest(p, req) ==
    /\ free(p)
    /\ IF notGet(req)
       THEN /\ cnStatus' = [cnStatus EXCEPT ![p] = 405]
            /\ cnBody' = [cnBody EXCEPT ![p] = [error |-> "Method not allowed."]]
            /\ cnPc' = [cnPc EXCEPT ![p] = "done"]
            /\ cnCalls' = [cnCalls EXCEPT ![p] = <<>>]
            /\ returned(p)
       ELSE IF trimmedQuery(req, "query") = <<>>
       THEN /\ cnStatus' = [cnStatus EXCEPT ![p] = 400]
            /\ cnBody' = [cnBody EXCEPT ![p] = [error |-> "Please provide query."]]
            /\ cnPc' = [cnPc EXCEPT ![p] = "done"]
            /\ cnCalls' = [cnCalls EXCEPT ![p] = <<>>]
            /\ returned(p)
       ELSE /\ cnRoute' = [cnRoute EXCEPT ![p] = "/api/countries/search"]
            /\ cnLang' = [cnLang EXCEPT ![p] = langOf(req)]
            /\ UNCHANGED <<cnRefresh, cnCached>>
            /\ cnStatus' = [cnStatus EXCEPT ![p] = 0]
            /\ cnBody' = [cnBody EXCEPT ![p] = Null]
            /\ cnPc' = [cnPc EXCEPT ![p] = "search"]
            /\ cnCalls' = [cnCalls EXCEPT ![p] = <<Call("translation", "pending")>>]
    /\ UNCHANGED countryCache

\* what searchCountries returns for the settled translation fetch
searchCountries(lang, response) ==
    IF response.kind = "neterr" THEN <<>>
    ELSE IF response.status = 404 THEN <<>>
    ELSE IF ~ok(response) THEN <<>>
    ELSE IF ~Has(response, "json") THEN <<>>
    ELSE mapCountries(response.json, toLowerCase(lang))

\* the translation fetch settles: the handler answers 200 with the list
SearchFetched(p, response) ==
    /\ cnPc[p] = "search"
    /\ cnCalls' = [cnCalls EXCEPT ![p] = Settle(cnCalls[p], response)]
    /\ cnStatus' = [cnStatus EXCEPT ![p] = 200]
    /\ cnBody' = [cnBody EXCEPT
                    ![p] = [countries |-> searchCountries(cnLang[p], response)]]
    /\ countryCache' = afterSearch(countryCache, cnLang[p],
                                   searchCountries(cnLang[p], response))
    /\ cnPc' = [cnPc EXCEPT ![p] = "done"]
    /\ returned(p)

NextCountries ==
    \/ \E p \in Requests, req \in CountriesRequests :
           CountriesRequest(p, req) /\ UNCHANGED notCountries
    \/ \E p \in Requests, response \in DirectoryResponses :
           CountriesFetched(p, response) /\ UNCHANGED notCountries
    \/ \E p \in Requests, req \in SearchRequests :
           SearchRequest(p, req) /\ UNCHANGED notCountries
    \/ \E p \in Requests, response \in TranslationResponses :
           SearchFetched(p, response) /\ UNCHANGED notCountries

SpecCountries == InitCountries /\ [][NextCountries]_vars

-----------------------------------------------------------------------------
(* GET /api/countries while the directory answers every fetch that         *)
(* succeeds with the same data                                             *)

RaceResponses ==
    {NetworkError, Http(500, OtherJson), HttpUnparseable(200),
     Http(200, <<ItemUS, ItemIL>>)}

NextRace ==
    \/ \E p \in Requests, req \in CountriesRequests :
           CountriesRequest(p, req) /\ UNCHANGED notCountries
    \/ \E p \in Requests, response \in RaceResponses :
           CountriesFetched(p, response) /\ UNCHANGED notCountries

SpecRace == InitCountries /\ [][NextRace]_vars

-----------------------------------------------------------------------------
(* The mapping of getCountries and searchCountries on drawn directory items *)

EnglishName == <<"I", "s">>
TranslatedName == <<"yod", "alef">>
NativeName == <<"yod", "shin">>

ItemNames ==
    {[common |-> <<>>],
     [common |-> EnglishName],
     [common |-> EnglishName, nativeName |-> [heb |-> [common |-> NativeName]]]}

ItemCodes == {<<>>, <<"i", "l">>}

ItemTranslations ==
    {[heb |-> [common |-> <<>>]], [heb |-> [common |-> TranslatedName]]}

Items ==
    [name : ItemNames] \cup [name : ItemNames, cca2 : ItemCodes]
    \cup [name : ItemNames, cca2 : ItemCodes, translations : ItemTranslations]
    \cup {[cca2 |-> <<"i", "l">>]}

ItemLists == UNION {[1..k -> Items] : k \in 0..MaxItems}

MapLangs == {<<"h", "e">>, <<"H", "e">>, <<"e", "n">>}

InitMap ==
    /\ mapData \in ItemLists
    /\ mapLang \in MapLangs
    /\ mapOut = <<>>
    /\ mapPc = "call"
    /\ MapOnly

\* the filter, map and sort of getCountries on the fetched data
MapOfGetCountries ==
    /\ mapPc = "call"
    /\ mapOut' = mapCountries(mapData, cacheKey(mapLang))
    /\ mapPc' = "listed"
    /\ UNCHANGED <<mapData, mapLang>>

\* the filter, map and sort of searchCountries on the fetched data
MapOfSearchCountries ==
    /\ mapPc = "call"
    /\ mapOut' = searchCountries(mapLang, Http(200, mapData))
    /\ mapPc' = "searched"
    /\ UNCHANGED <<mapData, mapLang>>

NextMap ==
    \/ MapOfGetCountries /\ UNCHANGED notMap
    \/ MapOfSearchCountries /\ UNCHANGED notMap

SpecMap == InitMap /\ [][NextMap]_vars

-----------------------------------------------------------------------------
(* The tools get-forecast and get-alerts of the MCP server *)

\* a request helper threw instead of returning: the await rethrows
Thrown == [thrown |-> TRUE]
threw(data) == Has(data, "thrown")

\* bug: the failure of the fetch is not caught
makeNWSRequest_Uncaught(response) ==
    IF fetchedNull(response) THEN Thrown ELSE response.json

\* makeNWSRequest: the JSON of a 2xx answer, null on any failure
makeNWSRequest(response) ==
    IF response.kind = "neterr" THEN Null
    ELSE IF ~ok(response) THEN Null
    ELSE IF ~Has(response, "json") THEN Null
    ELSE response.json

\* makeOpenMeteoRequest: the JSON of a 2xx answer, null on any failure
makeOpenMeteoRequest(response) ==
    IF response.kind = "neterr" THEN Null
    ELSE IF ~ok(response) THEN Null
    ELSE IF ~Has(response, "json") THEN Null
    ELSE response.json

\* a content block of type text
textContent(text) == [content |-> <<[type |-> "text", text |-> text]>>]

\* value || fallback for a string field: undefined and "" are falsy
orElse(obj, field, fallback) ==
    IF Has(obj, field) /\ obj[field] # "" THEN obj[field] ELSE fallback

\* typeof value === "number" ? `${value}°C` : "Unknown"
celsius(values, i) ==
    IF i <= Len(values) /\ IsNumber(values[i]) THEN values[i] ELSE [unknown |-> TRUE]

\* the daily array of a field, empty when daily has no such field
dailyOf(daily, field) == IF Has(daily, field) THEN daily[field] ELSE <<>>

\* formatOpenMeteoForecast
formatOpenMeteoForecast(data, latitude, longitude) ==
    IF noDailyTime(data)
    THEN [text |-> "No forecast periods available for", latitude |-> latitude,
          longitude |-> longitude]
    ELSE [text |-> "Forecast (Open-Meteo)", latitude |-> latitude,
          longitude |-> longitude,
          current |-> orNull(data, "current_weather"),
          days |-> [i \in 1..Len(data.daily.time) |->
                      [date |-> data.daily.time[i],
                       high |-> celsius(dailyOf(data.daily, "temperature_2m_max"), i),
                       low |-> celsius(dailyOf(data.daily, "temperature_2m_min"), i)]]]

\* forecastData.properties?.periods || []
periodsOf(forecastData) ==
    IF Has(forecastData, "properties") /\ Has(forecastData.properties, "periods")
    THEN forecastData.properties.periods ELSE <<>>

\* the text of one forecast period
formatPeriod(period) ==
    [name |-> orElse(period, "name", "Unknown"),
     wind |-> orElse(period, "windSpeed", "Unknown"),
     shortForecast |-> orElse(period, "shortForecast", "No forecast available")]

\* the answer of get-forecast to the primary provider's forecast
formatNWSForecast(forecastData, latitude, longitude) ==
    IF Len(periodsOf(forecastData)) = 0
    THEN [text |-> "No forecast periods available"]
    ELSE [text |-> "Forecast", latitude |-> latitude, longitude |-> longitude,
          periods |-> [i \in 1..Len(periodsOf(forecastData)) |->
                         formatPeriod(periodsOf(forecastData)[i])]]

\* whether pointsData.properties?.forecast is a non-empty URL
hasForecastUrl(points) ==
    /\ Has(points, "properties")
    /\ Has(points.properties, "forecast")
    /\ points.properties.forecast # ""

\* bug: a point answer without a forecast URL does not fall back
fallsBack_OnlyWhenNull(points) == points = Null

\* the secondary provider is asked when the point lookup gave null or its
\* answer has no forecast URL
fallsBack(points) == points = Null \/ ~hasForecastUrl(points)

\* alertsData.features || []
featuresOf(alertsData) ==
    IF Has(alertsData, "features") THEN alertsData.features ELSE <<>>

\* formatAlert
formatAlert(feature) ==
    [event |-> orElse(feature.properties, "event", "Unknown"),
     headline |-> orElse(feature.properties, "headline", "No headline")]

\* the answer of get-alerts to the alerts of a state
formatAlerts(alertsData, stateCode) ==
    IF Len(featuresOf(alertsData)) = 0
    THEN [text |-> "No active alerts for", stateCode |-> stateCode]
    ELSE [text |-> "Active alerts for", stateCode |-> stateCode,
          alerts |-> [i \in 1..Len(featuresOf(alertsData)) |->
                        formatAlert(featuresOf(alertsData)[i])]]

AlertsArguments == [state : {<<"i", "l">>, <<"U", "S">>}]

Features ==
    {[properties |-> [event |-> "Flood Warning", headline |-> ""]],
     [properties |-> OtherJson]}

AlertsResponses ==
    {NetworkError, Http(500, OtherJson), Http(200, OtherJson),
     Http(200, [features |-> <<>>])}
    \cup {Http(200, [features |-> <<f>>]) : f \in Features}

Latitudes == {32, 90}
Longitudes == {34, -180}
ToolArguments == [latitude : Latitudes, longitude : Longitudes]

PointsResponses ==
    {NetworkError, Http(404, OtherJson), HttpUnparseable(200), Http(200, OtherJson),
     Http(200, [properties |-> OtherJson]),
     Http(200, [properties |-> [forecast |-> ""]]),
     Http(200, [properties |-> [forecast |-> "https://api.weather.gov/gridpoints"]])}

Periods ==
    {[name |-> "Tonight", windSpeed |-> "5 mph", shortForecast |-> "Clear"],
     [name |-> ""], OtherJson}

PeriodLists == UNION {[1..k -> Periods] : k \in 0..MaxPeriods}

NWSForecastResponses ==
    {NetworkError, Http(500, OtherJson), HttpUnparseable(200), Http(200, OtherJson),
     Http(200, [properties |-> OtherJson])}
    \cup {Http(200, [properties |-> [periods |-> list]]) : list \in PeriodLists}

OpenMeteoPayloads ==
    {OtherJson,
     [daily |-> [time |-> <<>>]],
     [daily |-> [time |-> <<"2024-01-01">>]],
     [daily |-> [time |-> <<"2024-01-01">>, temperature_2m_max |-> <<Num(30)>>,
                 temperature_2m_min |-> <<Null>>],
      current_weather |-> [temperature |-> Num(20), windspeed |-> Num(3)]]}

OpenMeteoResponses ==
    {NetworkError, Http(500, OtherJson), HttpUnparseable(200)}
    \cup {Http(200, payload) : payload \in OpenMeteoPayloads}

InitTool ==
    /\ toolPc = "idle"
    /\ toolArgs = Null
    /\ pointsData = Null
    /\ toolCalls = <<>>
    /\ toolResult = Null
    /\ ToolOnly

\* a tool call returned its content, or its handler threw
toolOver == toolPc \in {"idle", "Succeeded", "Failed", "Thrown"}

\* get-forecast is called: the point lookup of the primary provider starts
GetForecast(args) ==
    /\ toolOver
    /\ toolArgs' = args
    /\ pointsData' = Null
    /\ toolCalls' = <<Call("points", "pending")>>
    /\ toolResult' = Null
    /\ toolPc' = "PrimaryLookup"

\* the point lookup settles: the forecast of the primary provider is
\* fetched, or the secondary provider is asked
PointsSettled(response) ==
    /\ toolPc = "PrimaryLookup"
    /\ IF threw(makeNWSRequest(response))
       THEN /\ toolPc' = "Thrown"
            /\ toolCalls' = Settle(toolCalls, response)
            /\ UNCHANGED pointsData
       ELSE /\ pointsData' = makeNWSRequest(response)
            /\ IF fallsBack(pointsData')
               THEN /\ toolPc' = "SecondaryLookup"
                    /\ toolCalls' = Append(Settle(toolCalls, response),
                                           Call("open-meteo", "pending"))
               ELSE /\ toolPc' = "PrimaryForecastFetch"
                    /\ toolCalls' = Append(Settle(toolCalls, response),
                                           Call("forecast", "pending"))
    /\ UNCHANGED <<toolArgs, toolResult>>

\* the forecast fetch of the primary provider settles
NWSForecastSettled(response) ==
    /\ toolPc = "PrimaryForecastFetch"
    /\ toolCalls' = Settle(toolCalls, response)
    /\ LET forecastData == makeNWSRequest(response)
       IN  IF threw(forecastData)
           THEN toolPc' = "Thrown" /\ UNCHANGED toolResult
           ELSE IF forecastData = Null
           THEN /\ toolPc' = "Failed"
                /\ toolResult' = textContent([text |-> "Failed to retrieve forecast data"])
           ELSE /\ toolPc' = "Succeeded"
                /\ toolResult' = textContent(formatNWSForecast(forecastData,
                                      toolArgs.latitude, toolArgs.longitude))
    /\ UNCHANGED <<toolArgs, pointsData>>

\* the fetch of the secondary provider settles
OpenMeteoSettled(response) ==
    /\ toolPc = "SecondaryLookup"
    /\ toolCalls' = Settle(toolCalls, response)
    /\ LET openMeteoData == makeOpenMeteoRequest(response)
       IN  IF threw(openMeteoData)
           THEN toolPc' = "Thrown" /\ UNCHANGED toolResult
           ELSE IF openMeteoData = Null
           THEN /\ toolPc' = "Failed"
                /\ toolResult' =
                       IF pointsData = Null
                       THEN textContent(
                                [text |-> "Failed to retrieve forecast data for coordinates",
                                 latitude |-> toolArgs.latitude,
                                 longitude |-> toolArgs.longitude])
                       ELSE textContent(
                                [text |-> "Failed to get forecast data from grid point response and Open-Meteo"])
           ELSE /\ toolPc' = "Succeeded"
                /\ toolResult' = textContent(formatOpenMeteoForecast(openMeteoData,
                                      toolArgs.latitude, toolArgs.longitude))
    /\ UNCHANGED <<toolArgs, pointsData>>

\* get-alerts is called: the alerts of the state are fetched
GetAlerts(args) ==
    /\ toolOver
    /\ toolArgs' = [stateCode |-> toUpperCase(args.state)]
    /\ pointsData' = Null
    /\ toolCalls' = <<Call("alerts", "pending")>>
    /\ toolResult' = Null
    /\ toolPc' = "Alerts"

\* the alerts fetch settles
AlertsSettled(response) ==
    /\ toolPc = "Alerts"
    /\ toolCalls' = Settle(toolCalls, response)
    /\ LET alertsData == makeNWSRequest(response)
       IN  IF threw(alertsData)
           THEN toolPc' = "Thrown" /\ UNCHANGED toolResult
           ELSE IF alertsData = Null
           THEN /\ toolPc' = "Failed"
                /\ toolResult' = textContent([text |-> "Failed to retrieve alerts data"])
           ELSE /\ toolPc' = "Succeeded"
                /\ toolResult' = textContent(formatAlerts(alertsData, toolArgs.stateCode))
    /\ UNCHANGED <<toolArgs, pointsData>>

\* a pending fetch of the tool call settles
ToolSettles ==
    \/ \E response \in AlertsResponses : AlertsSettled(response)
    \/ \E response \in PointsResponses : PointsSettled(response)
    \/ \E response \in NWSForecastResponses : NWSForecastSettled(response)
    \/ \E response \in OpenMeteoResponses : OpenMeteoSettled(response)

NextTool ==
    \/ \E args \in AlertsArguments : GetAlerts(args) /\ UNCHANGED notTool
    \/ \E response \in AlertsResponses : AlertsSettled(response) /\ UNCHANGED notTool
    \/ \E args \in ToolArguments : GetForecast(args) /\ UNCHANGED notTool
    \/ \E response \in PointsResponses : PointsSettled(response) /\ UNCHANGED notTool
    \/ \E response \in NWSForecastResponses :
           NWSForecastSettled(response) /\ UNCHANGED notTool
    \/ \E response \in OpenMeteoResponses :
           OpenMeteoSettled(response) /\ UNCHANGED notTool

\* every fetch settles, and the continuation of the await then runs
SpecTool == InitTool /\ [][NextTool]_vars /\ WF_vars(ToolSettles /\ UNCHANGED notTool)

-----------------------------------------------------------------------------
(* The operations that fetch, one of them running in a behaviour: the     *)
(* forecast handler, the cities handler, the two countries routes or the   *)
(* tools                                                                   *)

InitOps == InitForecast \/ InitCities \/ InitCountries \/ InitTool

NextOps ==
    \/ fcPc # "off" /\ NextForecast
    \/ ctPc # "off" /\ NextCities
    \/ cnPc[1] # "off" /\ NextCountries
    \/ toolPc # "off" /\ NextTool

SpecOps == InitOps /\ [][NextOps]_vars

-----------------------------------------------------------------------------
(* Claims about pickLocation *)

\* C1: pickLocation returns null if and only if the candidate list is empty,
\* whatever the country string.
C1_NullIffEmpty ==
    pickPc = "returned" => ((picked = Null) <=> (results = <<>>))

\* C1 witness: a non-empty list none of whose candidates matches the country,
\* answered with a candidate.
C1_Witness ==
    /\ pickPc = "returned"
    /\ results # <<>>
    /\ pickMatches(results, countryInput) = <<>>
    /\ picked = results[1]

\* the normalised country string of the claim: trim, then lowercase
Normalized(input) == toLowerCase(trim(input))

\* C2 as stated: with a 2-letter country the match set is the candidates whose
\* country_code equals it, otherwise those whose country equals it.
C2_StatedMatch(result, n) ==
    IF Len(n) = 2
    THEN Has(result, "country_code") /\ toLowerCase(result.country_code) = n
    ELSE toLowerCase(result.country) = n

\* C2 as amended: a candidate without a (non-empty) country_code is compared
\* by its country name also when the country string has 2 letters.
C2_AmendedMatch(result, n) ==
    IF Len(n) = 2 /\ Has(result, "country_code") /\ result.country_code # <<>>
    THEN toLowerCase(result.country_code) = n
    ELSE toLowerCase(result.country) = n

\* the first candidate, in provider order, of the match set; the first
\* candidate of the list when the match set is empty; null for an empty list
FirstMatchOrFirst(rs, hits) ==
        IF hits # {}
        THEN rs[CHOOSE k \in hits : \A j \in hits : k <= j]
        ELSE IF Len(rs) > 0 THEN rs[1] ELSE Null

\* C2 (original statement): pickLocation equals the reference whose match set
\* for a 2-letter country is exactly the candidates with that country_code.
C2_Original ==
    pickPc = "returned" =>
        LET n == Normalized(countryInput)
            hits == {k \in 1..Len(results) : C2_StatedMatch(results[k], n)}
        IN  picked = FirstMatchOrFirst(results, hits)

\* C2 (amended): pickLocation equals the reference in which a candidate that
\* has no country_code (absent or empty) is matched by its country name even
\* for a 2-letter country; the first match in provider order wins, else the
\* first candidate.
C2_Amended ==
    pickPc = "returned" =>
        LET n == Normalized(countryInput)
            hits == {k \in 1..Len(results) : C2_AmendedMatch(results[k], n)}
        IN  picked = FirstMatchOrFirst(results, hits)

\* C2 witness: a 2-letter country whose only match by country_code is the
\* second candidate, which is the one returned.
C2_Witness ==
    /\ pickPc = "returned"
    /\ Len(Normalized(countryInput)) = 2
    /\ Len(results) = 2
    /\ Has(results[1], "country_code") /\ results[1].country_code # <<>>
    /\ toLowerCase(results[1].country_code) # Normalized(countryInput)
    /\ Has(results[2], "country_code")
    /\ toLowerCase(results[2].country_code) = Normalized(countryInput)
    /\ picked = results[2]
    /\ picked # results[1]

-----------------------------------------------------------------------------
(* Claims about GET /api/forecast *)

\* the request is answered and was a GET (or carried no method)
ForecastAnswered == fcPc = "done" /\ ~notGet(fcReq)

\* the trimmed city or country of the request is empty
C3_Invalid ==
    \/ ~Has(fcReq.query, "city") \/ trim(fcReq.query.city) = <<>>
    \/ ~Has(fcReq.query, "country") \/ trim(fcReq.query.country) = <<>>

\* the forecast payload is present and its daily.time is not empty
C3_Usable ==
    /\ fcForecastData # Null
    /\ Has(fcForecastData, "daily")
    /\ Has(fcForecastData.daily, "time")
    /\ fcForecastData.daily.time # <<>>

\* C3: the status of a GET /api/forecast is 400 for an empty trimmed city or
\* country, else 404 when the geocoder yields no candidate, else 502 when the
\* payload is missing or its daily.time is empty, else 200; a 200 answer
\* carries a non-empty daily.time.
C3_StatusPriority ==
    ForecastAnswered =>
        /\ fcStatus = IF C3_Invalid THEN 400
                      ELSE IF fcResults = <<>> THEN 404
                      ELSE IF ~C3_Usable THEN 502
                      ELSE 200
        /\ fcStatus = 200 => fcBody.daily.time # <<>>
        /\ fcStatus = 400 => fcCalls = <<>>
        /\ fcStatus = 404 => Len(fcCalls) = 1

\* C3 witness: a valid request, a candidate found, and a payload whose
\* daily.time is empty, answered 502.
C3_Witness ==
    /\ ForecastAnswered
    /\ ~C3_Invalid
    /\ fcResults # <<>>
    /\ Has(fcForecastData, "daily")
    /\ Has(fcForecastData.daily, "time")
    /\ fcForecastData.daily.time = <<>>
    /\ fcStatus = 502

\* a recorded call whose fetch failed: a network error or a non-2xx status
FailedCall(call) == call.outcome \in {"neterr", "non2xx", "http404"}

\* some upstream fetch of the request failed
SomeFailed(calls) == \E k \in 1..Len(calls) : FailedCall(calls[k])

\* C4 (as stated): whenever an upstream fetch of a request failed, the answer
\* is an {error} body with status 502, for /api/forecast, /api/cities,
\* /api/countries and, except for an upstream 404, /api/countries/search.
C4_FailureIs502 ==
    /\ (fcPc = "done" /\ SomeFailed(fcCalls)) =>
           (fcStatus = 502 /\ Has(fcBody, "error"))
    /\ (ctPc = "done" /\ SomeFailed(ctCalls)) =>
           (ctStatus = 502 /\ Has(ctBody, "error"))
    /\ \A p \in Requests :
           (/\ cnPc[p] = "done"
            /\ SomeFailed(cnCalls[p])
            /\ cnCalls[p][1] # Call("translation", "http404")) =>
               (cnStatus[p] = 502 /\ Has(cnBody[p], "error"))

-----------------------------------------------------------------------------
(* Claims about the get-forecast tool *)

Called(endpoint) == \E k \in 1..Len(toolCalls) : toolCalls[k].endpoint = endpoint

\* the call of get-forecast in hand, its point lookup settled
LookupDone ==
    /\ toolCalls # <<>>
    /\ toolCalls[1].endpoint = "points"
    /\ toolCalls[1].outcome # "pending"

\* the point lookup failed, or its answer has no forecast URL
C5_NoPoint ==
    \/ toolCalls[1].outcome # "ok"
    \/ ~Has(pointsData, "properties")
    \/ ~Has(pointsData.properties, "forecast")
    \/ pointsData.properties.forecast = ""

\* C5: the secondary provider is fetched if and only if the point lookup
\* failed or its answer lacks a forecast URL, never before the point lookup
\* settled; a failed forecast fetch of the primary provider ends in Failed
\* with the secondary provider never contacted.
C5_SecondaryIffNoPoint ==
    /\ Called("open-meteo") => (LookupDone /\ toolCalls[2].endpoint = "open-meteo")
    /\ LookupDone => (Called("open-meteo") <=> C5_NoPoint)
    /\ LookupDone => (Called("forecast") <=> ~C5_NoPoint)
    /\ (Called("forecast") /\ FailedCall(toolCalls[2])) =>
           (toolPc = "Failed" /\ ~Called("open-meteo") /\ Len(toolCalls) = 2)

\* C5 witness: the point lookup gave a forecast URL, the forecast fetch
\* failed, and the call ended in Failed with two upstream calls.
C5_Witness ==
    /\ LookupDone
    /\ toolCalls[1].outcome = "ok"
    /\ Called("forecast")
    /\ toolCalls[2].outcome = "non2xx"
    /\ toolPc = "Failed"
    /\ ~Called("open-meteo")

InFlight == toolPc \in {"PrimaryLookup", "PrimaryForecastFetch", "SecondaryLookup"}

\* the caller got one content block of type text
TextReturned ==
    /\ Has(toolResult, "content")
    /\ Len(toolResult.content) = 1
    /\ toolResult.content[1].type = "text"
    /\ Has(toolResult.content[1].text, "text")

\* C6: every get-forecast call, whatever the outcomes of its fetches, reaches
\* Succeeded or Failed with a text content block, and no failure of a fetch
\* is thrown to the caller.
C6_EndsWithText ==
    /\ [](toolPc # "Thrown")
    /\ [](toolPc \in {"Succeeded", "Failed"} => TextReturned)
    /\ (InFlight ~> toolPc \in {"Succeeded", "Failed"})

\* C6 witness: the point lookup met a network error and the secondary
\* provider a non-2xx status, and the call ended in Failed with a text.
C6_Witness ==
    /\ toolPc = "Failed"
    /\ Len(toolCalls) = 2
    /\ toolCalls[1] = Call("points", "neterr")
    /\ toolCalls[2] = Call("open-meteo", "non2xx")
    /\ TextReturned

-----------------------------------------------------------------------------
(* Claims about the countries cache *)

\* the list the cache holds for a language tag, whatever the tag's case
Entry(lang) == countryCache[toLowerCase(lang)]

Populated(lang) == toLowerCase(lang) \in DOMAIN countryCache

\* the request asks for a refresh
AsksRefresh(req) == Has(req.query, "refresh") /\ req.query.refresh = <<"1">>

\* C7: a listCountries call without refresh for a language whose tag, in any
\* case, has a cache entry answers with exactly the cached list, makes no
\* upstream fetch and leaves the cache as it is.
C7_CacheHit ==
    [][\A p \in Requests, req \in CountriesRequests :
          (/\ free(p)
           /\ \A q \in Requests \ {p} : cnPc'[q] = cnPc[q]
           /\ ~notGet(req)
           /\ ~AsksRefresh(req)
           /\ Populated(langOf(req))
           /\ CountriesRequest(p, req)) =>
              /\ cnPc'[p] = "done"
              /\ cnCalls'[p] = <<>>
              /\ countryCache' = countryCache
              /\ Entry(langOf(req)) # <<>> =>
                     (/\ cnStatus'[p] = 200
                      /\ cnBody'[p] = [countries |-> Entry(langOf(req))])
              /\ Entry(langOf(req)) = <<>> => cnStatus'[p] = 502]_vars

\* C7 witness: a request was answered 200 with the cached Hebrew list and
\* without an upstream call.
C7_Witness ==
    \E p \in Requests :
        /\ cnPc[p] = "done"
        /\ cnCalls[p] = <<>>
        /\ cnStatus[p] = 200
        /\ HebrewTag \in DOMAIN countryCache
        /\ cnBody[p] = [countries |-> countryCache[HebrewTag]]

\* slot p is a listCountries call whose directory fetch settles in this step
ListSettles(p, key) ==
    /\ cnPc[p] = "list"
    /\ cnPc'[p] = "done"
    /\ toLowerCase(cnLang[p]) = key

\* C8 (as stated): an entry of the cache is never removed, and it is changed
\* only by a listCountries call made with refresh = true.
C8_Original ==
    [][\A key \in DOMAIN countryCache :
          /\ key \in DOMAIN countryCache'
          /\ countryCache'[key] # countryCache[key] =>
                 \E p \in Requests : ListSettles(p, key) /\ cnRefresh[p]]_vars

\* C8 (amended): an entry of the cache is never removed, and it is changed
\* only by a listCountries call made with refresh = true or one that found no
\* entry for the language when it looked the cache up.
C8_Amended ==
    [][\A key \in DOMAIN countryCache :
          /\ key \in DOMAIN countryCache'
          /\ countryCache'[key] # countryCache[key] =>
                 \E p \in Requests :
                     /\ ListSettles(p, key)
                     /\ (cnRefresh[p] \/ cnCached[p] = Null)]_vars

\* C8 witness: a call without refresh that missed the cache is still waiting
\* for the directory while the entry of its language is populated.
C8_Witness ==
    \E p \in Requests :
        /\ cnPc[p] = "list"
        /\ ~cnRefresh[p]
        /\ cnCached[p] = Null
        /\ Populated(cnLang[p])
        /\ Entry(cnLang[p]) # <<>>

\* C10: a search step leaves the cache as it is; a valid search issues a
\* live translation fetch even when the cache is populated; and an upstream
\* 404 is answered 200 with an empty list.
C10_SearchBypassesCache ==
    [][/\ \A p \in Requests, req \in SearchRequests :
             SearchRequest(p, req) =>
                 /\ countryCache' = countryCache
                 /\ (~notGet(req) /\ trimmedQuery(req, "query") # <<>>) =>
                        (/\ cnPc'[p] = "search"
                         /\ cnCalls'[p] = <<Call("translation", "pending")>>)
       /\ \A p \in Requests, response \in TranslationResponses :
             SearchFetched(p, response) =>
                 /\ countryCache' = countryCache
                 /\ (response.kind = "http" /\ response.status = 404) =>
                        (/\ cnStatus'[p] = 200
                         /\ cnBody'[p] = [countries |-> <<>>])]_vars

\* C10 witness: with the cache populated, a search met an upstream 404 and
\* was answered 200 with an empty list.
C10_Witness ==
    \E p \in Requests :
        /\ DOMAIN countryCache # {}
        /\ cnPc[p] = "done"
        /\ cnCalls[p] = <<Call("translation", "http404")>>
        /\ cnStatus[p] = 200
        /\ cnBody[p] = [countries |-> <<>>]

-----------------------------------------------------------------------------
(* Claims about the country mapping *)

\* a field holds a non-empty string
Present(object, field) == Has(object, field) /\ object[field] # <<>>

Kept(item) ==
    /\ Present(item, "cca2")
    /\ Has(item, "name")
    /\ Present(item.name, "common")

HasTranslated(item) ==
    /\ Has(item, "translations")
    /\ Has(item.translations, "heb")
    /\ Present(item.translations.heb, "common")

HasNative(item) ==
    /\ Has(item.name, "nativeName")
    /\ Has(item.name.nativeName, "heb")
    /\ Present(item.name.nativeName.heb, "common")

\* the name the claim states for a kept item
StatedName(item, lang) ==
    IF toLowerCase(lang) # <<"h", "e">> THEN item.name.common
    ELSE IF HasTranslated(item) THEN item.translations.heb.common
    ELSE IF HasNative(item) THEN item.name.nativeName.heb.common
    ELSE item.name.common

StatedEntry(item, lang) ==
    [code |-> toUpperCase(item.cca2),
     name |-> StatedName(item, lang),
     englishName |-> item.name.common]

Shown(entry) ==
    [code |-> entry.code, name |-> entry.name, englishName |-> entry.englishName]

\* C9: the output of the mapping holds, for every item with a country code
\* and a common name and for no other item, one entry whose name is the
\* translated Hebrew name, else the native Hebrew name, else the English
\* name for "he" in any case and the English name for any other language,
\* whose englishName is the English name and whose code has no lower-case
\* letter ("present" read as a non-empty string).
C9_NameSelection ==
    mapPc \in {"listed", "searched"} =>
        /\ \A entry \in {Shown(mapOut[k]) : k \in 1..Len(mapOut)}
                   \cup {StatedEntry(mapData[k], mapLang) :
                            k \in {j \in 1..Len(mapData) : Kept(mapData[j])}} :
               Cardinality({k \in 1..Len(mapOut) : Shown(mapOut[k]) = entry})
               = Cardinality({k \in 1..Len(mapData) :
                                /\ Kept(mapData[k])
                                /\ StatedEntry(mapData[k], mapLang) = entry})
        /\ \A k \in 1..Len(mapOut) :
               \A i \in 1..Len(mapOut[k].code) :
                   ~IsIn(mapOut[k].code[i], LowerLetters)

\* C9 witness: for the tag "He" an item with an empty translation and a
\* native Hebrew name is listed under the native name, and an item without
\* a country code is left out.
C9_Witness ==
    /\ mapPc = "listed"
    /\ mapLang = <<"H", "e">>
    /\ Len(mapData) = 2
    /\ ~Kept(mapData[1])
    /\ Kept(mapData[2]) /\ ~HasTranslated(mapData[2]) /\ HasNative(mapData[2])
    /\ Len(mapOut) = 1
    /\ mapOut[1].name = NativeName
    /\ mapOut[1].code = <<"I", "L">>

-----------------------------------------------------------------------------
(* Claims about GET /api/cities *)

CitiesAnswered == ctPc = "done" /\ ctStatus = 200

\* the candidates of the requested country, by their place in the result
InRequestedCountry ==
    {k \in 1..Len(ctResults) :
        /\ Has(ctResults[k], "country_code")
        /\ toUpperCase(ctResults[k].country_code) = toUpperCase(ctCountry)}

\* the (lowercased name, admin1) pair of a candidate, admin1 as given
StatedPair(r) ==
    <<toLowerCase(r.name), IF Has(r, "admin1") THEN r.admin1 ELSE Null>>

\* the pair with an absent admin1 read as the empty string
AmendedPair(r) ==
    <<toLowerCase(r.name), IF Has(r, "admin1") THEN r.admin1.string ELSE <<>> >>

\* the entry of the answer that stands for a candidate
EntryOf(r) == [name |-> r.name, admin1 |-> IF Has(r, "admin1") THEN r.admin1 ELSE Null]

\* the answer lists, in the order of the result, the candidates of firsts
ListsInOrder(firsts) ==
    /\ Len(ctBody.cities) = Cardinality(firsts)
    /\ \A k \in firsts :
           ctBody.cities[Cardinality({j \in firsts : j <= k})] = EntryOf(ctResults[k])

-----------------------------------------------------------------------------
(* Claims about the index alignment of GET /api/forecast *)

Aligned == fcPc = "done" /\ fcStatus = 200

\* hourlyTimes: the hourly time series of the fetched forecast, if any
Times ==
    IF Has(fcForecastData, "hourly") /\ Has(fcForecastData.hourly, "time")
    THEN fcForecastData.hourly.time ELSE <<>>

\* currentTime is there
HasNow ==
    /\ Has(fcForecastData, "current_weather")
    /\ Has(fcForecastData.current_weather, "time")

Now == fcForecastData.current_weather.time

Lowest(S) == CHOOSE k \in S : \A j \in S : k <= j

\* the places of hourlyTimes that hold currentTime verbatim
ExactAt == {k \in 1..Len(Times) : Times[k] = Now}

\* the date portion of a timestamp: what precedes its first "T"
DatePortion(str) ==
    LET ts == {k \in 1..Len(str) : str[k] = "T"}
    IN  IF ts = {} THEN str ELSE SubSeq(str, 1, Lowest(ts) - 1)

\* the places of hourlyTimes whose timestamp starts with the date of currentTime
SameDayAt ==
    {k \in 1..Len(Times) :
        /\ Len(DatePortion(Now)) <= Len(Times[k])
        /\ SubSeq(Times[k], 1, Len(DatePortion(Now))) = DatePortion(Now)}

\* C12: when currentTime appears verbatim in hourlyTimes, the aligned index
\* is the place of its first occurrence, whatever the other tiers would give.
C12_ExactTier ==
    (Aligned /\ HasNow /\ ExactAt # {}) => fcIndex = Lowest(ExactAt) - 1

\* C12 witness: currentTime is found at the second place of hourlyTimes,
\* after an entry of the same day and before a second occurrence.
C12_Witness ==
    /\ Aligned /\ HasNow
    /\ Now = Stamp("1", "5")
    /\ Times = <<Stamp("1", "0"), Stamp("1", "5"), Stamp("1", "5")>>
    /\ fcIndex = 1

\* C13 (as stated): for hourlyTimes of 00:00 and 01:00 of a day and a
\* currentTime of 05:30 of that day the aligned index is 1, the last entry
\* of the day.
C13_SameDayIsLast ==
    (/\ Aligned /\ HasNow
     /\ Times = <<Stamp("1", "0"), Stamp("1", "1")>>
     /\ Now = Stamp("1", "5")) => fcIndex = 1

\* C13 (amended): for the same input the aligned index is 0, the first entry
\* of the day.
C13_SameDayIsFirst ==
    (/\ Aligned /\ HasNow
     /\ Times = <<Stamp("1", "0"), Stamp("1", "1")>>
     /\ Now = Stamp("1", "5")) => fcIndex = 0

\* C13 witness: the forecast of the example was aligned.
C13_Witness ==
    /\ Aligned /\ HasNow
    /\ Times = <<Stamp("1", "0"), Stamp("1", "1")>>
    /\ Now = Stamp("1", "5")
    /\ fcIndex = 0

\* C14: the aligned index is 0 when hourlyTimes is empty and when
\* currentTime is absent, and every forecast with a daily series is aligned
\* to an index of the hourly series.
C14_ZeroWithoutInput ==
    /\ (Aligned /\ (Times = <<>> \/ ~HasNow)) => fcIndex = 0
    /\ (/\ fcPc = "done"
        /\ Len(fcCalls) = 2
        /\ fcCalls[2].outcome = "ok"
        /\ Has(fcForecastData, "daily")
        /\ Has(fcForecastData.daily, "time")
        /\ fcForecastData.daily.time # <<>>) =>
           (/\ fcStatus = 200
            /\ fcIndex >= 0
            /\ Times # <<>> => fcIndex < Len(Times))

\* C14 witness: a forecast with two hourly entries and no currentTime is
\* aligned to index 0.
C14_Witness ==
    /\ Aligned
    /\ Len(Times) = 2
    /\ ~HasNow
    /\ fcIndex = 0

\* C17: when currentTime has no exact match and some hourly timestamp starts
\* with its date portion, the aligned index is the first such place.
C17_SameDayTier ==
    (Aligned /\ HasNow /\ ExactAt = {} /\ SameDayAt # {}) =>
        fcIndex = Lowest(SameDayAt) - 1

\* C17 witness: currentTime is 05 of day 1; the hourly series holds day 3,
\* then 00 and 01 of day 1; the aligned index is that of 00 of day 1.
C17_Witness ==
    /\ Aligned /\ HasNow
    /\ Now = Stamp("1", "5")
    /\ Times = <<Stamp("3", "0"), Stamp("1", "0"), Stamp("1", "1")>>
    /\ fcIndex = 1

\* the places of hourlyTimes whose timestamp parses
ParseableAt == {k \in 1..Len(Times) : ~isNaN(DateParse(Times[k]))}

\* the distance in milliseconds of a parseable entry to currentTime
Distance(k) == abs(DateParse(Times[k]).ms - DateParse(Now).ms)

\* C18: without an exact or a same-day match the aligned index is the lowest
\* place among the parseable entries nearest in time to currentTime, and 0
\* when currentTime or every entry does not parse.
C18_NearestTier ==
    (Aligned /\ HasNow /\ Times # <<>> /\ ExactAt = {} /\ SameDayAt = {}) =>
        IF isNaN(DateParse(Now)) \/ ParseableAt = {}
        THEN fcIndex = 0
        ELSE /\ fcIndex + 1 \in ParseableAt
             /\ \A j \in ParseableAt :
                    \/ Distance(fcIndex + 1) < Distance(j)
                    \/ Distance(fcIndex + 1) = Distance(j) /\ fcIndex + 1 <= j

\* C18 witness: currentTime is 01 of day 2; of 00 of day 1, an entry that
\* does not parse and 00 of day 3, the last is the nearest.
C18_Witness ==
    /\ Aligned /\ HasNow
    /\ Now = Stamp("2", "1")
    /\ Times = <<Stamp("1", "0"), <<"x">>, Stamp("3", "0")>>
    /\ fcIndex = 2

-----------------------------------------------------------------------------
(* Claims about the current conditions of GET /api/forecast *)

\* the hourly series of a field, empty when hourly or the field is missing
SeriesOf(field) ==
    IF Has(fcForecastData, "hourly") /\ Has(fcForecastData.hourly, field)
    THEN fcForecastData.hourly[field] ELSE <<>>

NumbersAt(field) ==
    {k \in 1..Len(SeriesOf(field)) : Has(SeriesOf(field)[k], "number")}

\* the value the claim states for a field: the element at the aligned index
\* if it is a number, else the first number of the series, else null
Extracted(field) ==
    IF fcIndex + 1 \in NumbersAt(field) THEN SeriesOf(field)[fcIndex + 1]
    ELSE IF NumbersAt(field) # {} THEN SeriesOf(field)[Lowest(NumbersAt(field))]
    ELSE Null

\* C15: humidity, visibility and apparentTemperature of the answer, and the
\* windspeed when its hourly value is not null, are the element of the
\* hourly series at the aligned index if it is a number, else the first
\* number of the series, else null.
C15_HourlyValue ==
    Aligned =>
        /\ fcBody.current.humidity = Extracted("relative_humidity_2m")
        /\ fcBody.current.visibility = Extracted("visibility")
        /\ fcBody.current.apparentTemperature = Extracted("apparent_temperature")
        /\ Extracted("wind_speed_10m") # Null =>
               fcBody.current.windspeed = Extracted("wind_speed_10m")

\* C15 witness: humidity [null, null, 55] at index 0 gives 55.
C15_Witness ==
    /\ Aligned
    /\ fcIndex = 0
    /\ SeriesOf("relative_humidity_2m") = <<Null, Null, Num(55)>>
    /\ fcBody.current.humidity = Num(55)

\* C19: windspeed of the answer is the hourly value of wind_speed_10m when
\* that is not null, else current_weather.windspeed when there is one, else
\* null.
C19_Windspeed ==
    Aligned =>
        fcBody.current.windspeed =
            IF Extracted("wind_speed_10m") # Null THEN Extracted("wind_speed_10m")
            ELSE IF /\ Has(fcForecastData, "current_weather")
                    /\ Has(fcForecastData.current_weather, "windspeed")
            THEN fcForecastData.current_weather.windspeed
            ELSE Null

\* C19 witness: the hourly wind at the aligned index is 0 and
\* current_weather.windspeed is 3; the windspeed of the answer is 0.
C19_Witness ==
    /\ Aligned
    /\ fcIndex = 1
    /\ SeriesOf("wind_speed_10m") = <<Null, Num(0)>>
    /\ Has(fcForecastData, "current_weather")
    /\ Has(fcForecastData.current_weather, "windspeed")
    /\ fcForecastData.current_weather.windspeed = Num(3)
    /\ fcBody.current.windspeed = Num(0)

-----------------------------------------------------------------------------
(* Claims about the locations and the upstream calls of GET /api/forecast *)

\* C16: no request is answered "No matching location for that country.": a
\* request whose geocoder result is not empty always has a location picked.
C16_NoCountryMismatch ==
    /\ fcBody # [error |-> "No matching location for that country."]
    /\ (fcPc \in {"forecast", "done"} /\ fcResults # <<>>) =>
           (fcLocation # Null /\ \E k \in 1..Len(fcResults) : fcLocation = fcResults[k])

\* C16 witness: no candidate matches the country of the request, and the
\* request is answered 200 for the first candidate.
C16_Witness ==
    /\ Aligned
    /\ \A k \in 1..Len(fcResults) :
           ~C2_AmendedMatch(fcResults[k], Normalized(fcCountry))
    /\ fcLocation = fcResults[1]
    /\ fcBody.location.name = fcResults[1].name

\* the places of the upstream calls made to an endpoint
CallsTo(endpoint) == {k \in 1..Len(fcCalls) : fcCalls[k].endpoint = endpoint}

\* C20: a request that fails validation makes no upstream call; the first
\* call is to the geocoder; the weather provider is called once, second,
\* after the geocoder answered with candidates and a location was picked,
\* and never after the geocoder failed or returned no candidate.
C20_CallOrder ==
    /\ (fcPc = "done" /\ (notGet(fcReq) \/ C3_Invalid)) => fcCalls = <<>>
    /\ fcCalls # <<>> => (CallsTo("geocoding") = {1} /\ Len(fcCalls) <= 2)
    /\ CallsTo("forecast") # {} =>
           /\ CallsTo("forecast") = {2}
           /\ fcCalls[1].outcome = "ok"
           /\ fcResults # <<>>
           /\ fcLocation # Null
    /\ (/\ fcCalls # <<>>
        /\ fcCalls[1].outcome # "pending"
        /\ (FailedCall(fcCalls[1]) \/ fcResults = <<>>)) =>
           (CallsTo("forecast") = {} /\ fcPc = "done")

\* C20 witness: the geocoder answered with candidates and the weather
\* provider is being called, second, for the location picked.
C20_Witness ==
    /\ fcPc = "forecast"
    /\ fcCalls = <<Call("geocoding", "ok"), Call("forecast", "pending")>>
    /\ fcLocation = fcResults[1]

-----------------------------------------------------------------------------
(* Claims about concurrent listCountries calls *)

\* the list the call of slot p returns in the step that answers it
ReturnedNext(p) == IF cnStatus'[p] = 200 THEN cnBody'[p].countries ELSE <<>>

\* every call in flight has a fetch of its own pending
OwnFetch == \A p \in Requests : cnPc[p] = "list" => cnCalls[p] = <<Call("all", "pending")>>

\* the entry of the language of slot p is, after the step, the list p returns
WritesOwnList(p) ==
    /\ toLowerCase(cnLang[p]) \in DOMAIN countryCache'
    /\ countryCache'[toLowerCase(cnLang[p])] = ReturnedNext(p)

\* no entry of the cache changes its list
EntriesStable ==
    \A key \in DOMAIN countryCache :
        key \in DOMAIN countryCache' /\ countryCache'[key] = countryCache[key]

\* every list returned is the list of an entry of the cache
ReturnsTheEntry ==
    \A p \in Requests :
        (cnPc[p] = "done" /\ cnStatus[p] = 200) =>
            \E key \in DOMAIN countryCache : countryCache[key] = cnBody[p].countries

\* C21 (as stated): each call fetches on its own and writes the entry when
\* its fetch completes, so that the entry is that of the call whose fetch
\* completed last; with the same upstream data every call returns the same
\* list, which the entry holds whatever the interleaving.
C21_Original ==
    /\ []OwnFetch
    /\ [][\A p \in Requests :
              (cnPc[p] = "list" /\ cnPc'[p] = "done") => WritesOwnList(p)]_vars
    /\ [][EntriesStable]_vars
    /\ []ReturnsTheEntry

\* C21 (amended): the same, a call writing the entry only when its fetch
\* succeeds, so that the entry is that of the call whose successful fetch
\* completed last.
C21_Amended ==
    /\ []OwnFetch
    /\ [][\A p \in Requests :
              (/\ cnPc[p] = "list" /\ cnPc'[p] = "done"
               /\ cnCalls'[p] = <<Call("all", "ok")>>) => WritesOwnList(p)]_vars
    /\ [][EntriesStable]_vars
    /\ []ReturnsTheEntry

\* C21 witness: a call that missed the cache fetched and returned the list
\* the entry holds while another call that missed it is still fetching.
C21_Witness ==
    \E p, q \in Requests :
        /\ cnPc[p] = "done"
        /\ cnCalls[p] = <<Call("all", "ok")>>
        /\ cnStatus[p] = 200
        /\ cnPc[q] = "list"
        /\ ~cnRefresh[q]
        /\ cnCached[q] = Null
        /\ Populated(cnLang[q])
        /\ cnBody[p].countries = Entry(cnLang[q])

-----------------------------------------------------------------------------
(* Claims about the fetches of one invocation *)

\* a fetch that settled without data
Unsuccessful(call) == call.outcome \notin {"ok", "pending"}

\* no endpoint is fetched twice, and only the last fetch can be pending
OncePerEndpoint(calls) ==
    /\ \A i, j \in 1..Len(calls) : i # j => calls[i].endpoint # calls[j].endpoint
    /\ \A k \in 1..Len(calls) : calls[k].outcome = "pending" => k = Len(calls)

\* an unsuccessful fetch is the last one of its invocation
EndsAtFailure(calls) ==
    \A k \in 1..Len(calls) : Unsuccessful(calls[k]) => k = Len(calls)

\* C22: within one invocation of a handler or a tool every endpoint is
\* fetched at most once; a fetch that failed is not issued again: the
\* handlers answer at once (an error or an empty list), and the forecast
\* tool either returns at once or, after the point lookup, asks the other
\* provider once.
C22_NoRetries ==
    /\ OncePerEndpoint(fcCalls) /\ Len(fcCalls) <= 2
    /\ EndsAtFailure(fcCalls)
    /\ SomeFailed(fcCalls) => (fcPc = "done" /\ fcStatus \in {404, 502})
    /\ OncePerEndpoint(ctCalls) /\ Len(ctCalls) <= 1
    /\ (ctCalls # <<>> /\ Unsuccessful(ctCalls[1])) =>
           (ctPc = "done" /\ ctBody = [cities |-> <<>>])
    /\ \A p \in Requests :
           /\ OncePerEndpoint(cnCalls[p]) /\ Len(cnCalls[p]) <= 1
           /\ (cnCalls[p] # <<>> /\ Unsuccessful(cnCalls[p][1])) =>
                  /\ cnPc[p] = "done"
                  /\ cnStatus[p] = 502 \/ cnBody[p] = [countries |-> <<>>]
    /\ OncePerEndpoint(toolCalls) /\ Len(toolCalls) <= 2
    /\ \A k \in 1..Len(toolCalls) :
           Unsuccessful(toolCalls[k]) =>
               \/ k = Len(toolCalls) /\ toolPc \in {"Failed", "Thrown"}
               \/ /\ toolCalls[k].endpoint = "points"
                  /\ k + 1 = Len(toolCalls)
                  /\ toolCalls[k + 1].endpoint = "open-meteo"

\* C22 witness: the forecast tool returned its failure text after the point
\* lookup and the one fetch of the other provider both failed.
C22_Witness ==
    /\ toolPc = "Failed"
    /\ Len(toolCalls) = 2
    /\ toolCalls[1].endpoint = "points" /\ FailedCall(toolCalls[1])
    /\ toolCalls[2].endpoint = "open-meteo" /\ FailedCall(toolCalls[2])

-----------------------------------------------------------------------------
(* Claims about a directory fetch that fails *)

\* the fetch of the call of slot p fails in this step
ListFails(p) ==
    /\ cnPc[p] = "list"
    /\ cnPc'[p] = "done"
    /\ Unsuccessful(cnCalls'[p][1])

\* a call of slot q is over whose fetch failed
FailedBefore(q) ==
    /\ cnPc[q] = "done"
    /\ cnCalls[q] # <<>>
    /\ cnCalls[q][1].endpoint = "all"
    /\ Unsuccessful(cnCalls[q][1])

\* C23: when the directory fetch of a listCountries call fails, on a miss or
\* on a refresh of a populated entry, the call returns the empty list (the
\* handler answers 502) and no entry of the cache changes; a list cached
\* before is still there and a later call without refresh is answered with
\* it, without a fetch.
C23_FailureKeepsCache ==
    [][/\ \A p \in Requests :
             ListFails(p) =>
                 /\ cnStatus'[p] = 502
                 /\ cnBody'[p] = [error |-> "Unable to load countries list."]
                 /\ countryCache' = countryCache
       /\ \A p, q \in Requests, req \in CountriesRequests :
             (/\ free(p)
              /\ p # q
              /\ FailedBefore(q)
              /\ ~notGet(req)
              /\ ~AsksRefresh(req)
              /\ Populated(langOf(req))
              /\ Entry(langOf(req)) # <<>>
              /\ CountriesRequest(p, req)) =>
                 /\ cnCalls'[p] = <<>>
                 /\ cnStatus'[p] = 200
                 /\ cnBody'[p] = [countries |-> Entry(langOf(req))]]_vars

\* C23 witness: a call whose directory fetch failed was answered 502, a list
\* is cached, and a call without refresh was answered with that list, without
\* a fetch.
C23_Witness ==
    \E p, q \in Requests :
        /\ FailedBefore(q)
        /\ cnStatus[q] = 502
        /\ cnPc[p] = "done"
        /\ cnCalls[p] = <<>>
        /\ cnStatus[p] = 200
        /\ \E key \in DOMAIN countryCache :
               countryCache[key] # <<>> /\ cnBody[p] = [countries |-> countryCache[key]]

-----------------------------------------------------------------------------
(* Claims about a directory without usable entries *)

\* the fetch of the call of slot p succeeds in this step
ListSucceeds(p) ==
    /\ cnPc[p] = "list"
    /\ cnPc'[p] = "done"
    /\ cnCalls'[p] = <<Call("all", "ok")>>

\* a fetch that succeeds without a usable entry stores the empty list
StoresEmpty ==
    \A p \in Requests :
        (ListSucceeds(p) /\ cnStatus'[p] = 502) =>
            /\ toLowerCase(cnLang[p]) \in DOMAIN countryCache'
            /\ countryCache'[toLowerCase(cnLang[p])] = <<>>

\* a call without refresh that finds the empty list answers 502, no fetch
ServesEmpty ==
    (\E key \in DOMAIN countryCache : countryCache[key] = <<>>) =>
        \A p \in Requests :
            (free(p) /\ \A q \in Requests \ {p} : cnPc'[q] = cnPc[q]) =>
                \A req \in CountriesRequests :
                    (/\ ~notGet(req)
                     /\ ~AsksRefresh(req)
                     /\ Populated(langOf(req))
                     /\ Entry(langOf(req)) = <<>>
                     /\ CountriesRequest(p, req)) =>
                        /\ cnPc'[p] = "done"
                        /\ cnCalls'[p] = <<>>
                        /\ cnStatus'[p] = 502
                        /\ cnBody'[p] = [error |-> "Unable to load countries list."]
                        /\ countryCache' = countryCache

\* the keys whose cached empty list is replaced or removed in this step
EmptyEnds ==
    {key \in DOMAIN countryCache :
        /\ countryCache[key] = <<>>
        /\ key \notin DOMAIN countryCache' \/ countryCache'[key] # <<>>}

\* C24 (as stated): a successful fetch without usable entries stores the
\* empty list; every later call without refresh for the language is answered
\* 502 from it without a fetch; and the empty list stays until a call with
\* refresh = true succeeds.
C24_Original ==
    [][/\ StoresEmpty
       /\ ServesEmpty
       /\ \A key \in EmptyEnds :
             \E p \in Requests :
                 ListSucceeds(p) /\ toLowerCase(cnLang[p]) = key /\ cnRefresh[p]]_vars

\* C24 (amended): the same, the empty list staying until a call that fetches
\* the directory succeeds: one with refresh = true, or one without it that
\* found no entry for the language when it looked the cache up.
C24_Amended ==
    [][/\ StoresEmpty
       /\ ServesEmpty
       /\ \A key \in EmptyEnds :
             \E p \in Requests :
                 /\ ListSucceeds(p) /\ toLowerCase(cnLang[p]) = key
                 /\ cnRefresh[p] \/ cnCached[p] = Null]_vars

\* C24 witness: the empty list is cached and a call was answered 502 without
\* a fetch.
C24_Witness ==
    \E p \in Requests :
        /\ cnPc[p] = "done"
        /\ cnCalls[p] = <<>>
        /\ cnStatus[p] = 502
        /\ \E key \in DOMAIN countryCache : countryCache[key] = <<>>

-----------------------------------------------------------------------------
(* Claims about the range of the aligned index *)

\* C25: whatever the hourly series and currentTime, the aligned index of an
\* answered forecast is 0 for an empty series and otherwise an index of the
\* series, from 0 to its length less one.
C25_IndexInRange ==
    Aligned =>
        IF Times = <<>>
        THEN fcIndex = 0
        ELSE fcIndex \in 0..(Len(Times) - 1)

\* C25 witness: with a currentTime, the index is the last one of the longest
\* series.
C25_Witness ==
    /\ Aligned
    /\ HasNow
    /\ Len(Times) = MaxHours
    /\ fcIndex = MaxHours - 1

====
